---- MODULE Spec2Model ----
(***************************************************************************)
(* The OpenSearch puller of data-pipeline-manager                          *)
(* (services/opensearch_puller/opensearch_puller/puller.py) as a state     *)
(* machine: one sequential worker (run_loop / run_once) whose metadata     *)
(* reads and writes interleave with the operator's edits of backfill_jobs  *)
(* (pages/5_Backfill.py), with upstream and warehouse failures, and with   *)
(* the worker being stopped and restarted.  Single calls of its pure       *)
(* functions (_request, _retry_clickhouse, require_identifier,             *)
(* _apply_puller_config) are a specification of their own, and so are two  *)
(* runs of the schema migrator (services/schema_migrator/schema_migrator/  *)
(* migrator.py, apply_schema) against one warehouse catalog.               *)
(***************************************************************************)
EXTENDS Integers, Sequences, FiniteSets, TLC

VARIABLES
    jobs,   \* metadata.backfill_jobs: job_id -> row
    ing,    \* metadata.ingestion_state: source_id -> index_name -> row
    wh,     \* <project>_bronze.os_events_raw: source -> index -> doc -> rows inserted
    cfg,    \* the config module's globals (MAX_RETRIES, OVERLAP_MINUTES, BATCH_SIZE)
    pc,     \* the worker's position in run_loop / run_once
    pl,     \* the worker's local variables
    env,    \* the enabled sources; the documents whose time field is no
            \* ISO-8601 text; how many cycles, raised failures and stops have
            \* happened
    gh,     \* history of the run, read by the properties only
    hb,     \* metadata.worker_heartbeats: the status of the worker's row
    meta,   \* the metadata the schema migrator reads (projects, parsing
            \* tables and their fields, field registry)
    runs,   \* the schema migrator's runs: position, results, statements sent
    ch,     \* the warehouse's catalog: databases, tables with columns, views
    call    \* one call of a function of the code: its arguments and result

vars == <<jobs, ing, wh, cfg, pc, pl, env, gh, hb, meta, runs, ch, call>>

----------------------------------------------------------------------------
(* Bounds of the model *)

NSources == 2      \* sources in metadata.opensearch_sources
NIdx == 2          \* index names the upstream may hold
MaxJobs == 1       \* backfill jobs the operator creates (one more in SpecJobs)
MaxCycles == 2     \* cycles of run_loop
MaxFaults == 1     \* HTTP calls that end by raising
MaxCrashes == 1    \* times the worker is stopped and started again
MaxRows == 2       \* rows inserted into os_events_raw beside the migrator

Sources == 1..NSources
IndexNames == 1..NIdx
JobIds == 1..MaxJobs + 1

----------------------------------------------------------------------------
(* Values *)

\* Python None for a datetime, an index name, a document id, a sort list, an error
NoTs == -1000
NoIndex == 0
NoId == 0
NoSort == <<>>
NoError == "NULL"

\* config.py defaults
DefaultMaxRetries == 3
DefaultOverlapMinutes == 10
DefaultBatchSize == 500

EnvConfig ==
    [max_retries |-> DefaultMaxRetries,
     overlap_minutes |-> DefaultOverlapMinutes,
     batch_size |-> DefaultBatchSize]

\* The documents an index holds upstream, each <<time_field, _id>>; its sort
\* values under sort [{time_field: asc}, {_id: asc}] are the same pair.
DocsOf(i) ==
    IF i % 2 = 1 THEN {<<1, 1>>, <<2, 1>>, <<2, 2>>}
                 ELSE {<<1, 1>>, <<3, 1>>}

\* datetime.now(timezone.utc) of a cycle, after every document's time
Now ==
    LET AllDocs == UNION {DocsOf(i) : i \in IndexNames}
    IN CHOOSE t \in {d[1] : d \in AllDocs} : \A d \in AllDocs : d[1] <= t

\* The windows the operator's form submits (end_ts > start_ts)
BackfillWindows == {<<2, 3>>}

\* Rows of metadata.opensearch_puller_config the operator may have saved;
\* <<>> is a NULL column, <<v>> the value v
ConfigRows ==
    {[max_retries |-> <<>>, overlap_minutes |-> <<>>, batch_size |-> <<>>],
     [max_retries |-> <<0>>, overlap_minutes |-> <<1>>, batch_size |-> <<1>>],
     [max_retries |-> <<1>>, overlap_minutes |-> <<0>>, batch_size |-> <<1>>],
     [max_retries |-> <<2>>, overlap_minutes |-> <<1>>, batch_size |-> <<2>>],
     [max_retries |-> <<-1>>, overlap_minutes |-> <<-1>>, batch_size |-> <<0>>]}

\* How many consecutive attempts of one HTTP call fail before one would succeed
FailCounts == 0..DefaultMaxRetries

----------------------------------------------------------------------------
(* Sort order (time_field, _id) *)

SortLT(a, b) ==
    IF a = NoSort THEN b # NoSort
    ELSE IF b = NoSort THEN FALSE
    ELSE a[1] < b[1] \/ (a[1] = b[1] /\ a[2] < b[2])

SortLE(a, b) == a = b \/ SortLT(a, b)

RECURSIVE SortDocs(_)
SortDocs(S) ==
    IF S = {} THEN <<>>
    ELSE LET m == CHOOSE x \in S : \A y \in S : ~SortLT(y, x)
         IN <<m>> \o SortDocs(S \ {m})

RECURSIVE SortInts(_)
SortInts(S) ==
    IF S = {} THEN <<>>
    ELSE LET m == CHOOSE x \in S : \A y \in S : x <= y
         IN <<m>> \o SortInts(S \ {m})

Take(s, n) == IF Len(s) <= n THEN s ELSE SubSeq(s, 1, n)

Range(s) == {s[k] : k \in 1..Len(s)}

\* What _cat/indices may answer: any set of open indices, sorted(set(...))
Listings == {SortInts(S) : S \in SUBSET IndexNames}

----------------------------------------------------------------------------
(* Metadata store gateway (PgStore) *)

AbsentJob ==
    [source_id |-> 0, status |-> "absent", last_error |-> NoError,
     start_ts |-> NoTs, end_ts |-> NoTs,
     last_index_name |-> NoIndex, last_ts |-> NoTs,
     last_sort_json |-> NoSort, last_id |-> NoId]

NoRow ==
    [exists |-> FALSE, last_ts |-> NoTs, last_sort_json |-> NoSort,
     last_id |-> NoId, status |-> "none", last_error |-> NoError]

\* The resume pointer of a backfill job
Pointer(j) ==
    [last_index_name |-> j.last_index_name, last_ts |-> j.last_ts,
     last_sort_json |-> j.last_sort_json, last_id |-> j.last_id]

NullPointer == Pointer(AbsentJob)

\* fetch_backfill_job with ORDER BY created_at DESC
FetchBackfillJobIdLatest(s) ==
    LET open == {j \in JobIds : jobs[j].source_id = s
                                /\ jobs[j].status \in {"pending", "running"}}
    IN IF open = {} THEN 0
       ELSE CHOOSE j \in open : \A k \in open : j >= k

\* fetch_backfill_job: WHERE source_id = s AND status IN ('pending','running')
\* ORDER BY created_at ASC LIMIT 1 (job ids are handed out in creation order)
FetchBackfillJobId(s) ==
    LET open == {j \in JobIds : jobs[j].source_id = s
                                /\ jobs[j].status \in {"pending", "running"}}
    IN IF open = {} THEN 0
       ELSE CHOOSE j \in open : \A k \in open : j <= k

\* set_backfill_status with the row's other columns cleared too
SetBackfillStatusClearing(row, status, last_error) ==
    [row EXCEPT !.status = status, !.last_error = last_error,
                !.last_index_name = NoIndex, !.last_ts = NoTs,
                !.last_sort_json = NoSort, !.last_id = NoId]

\* set_backfill_status: UPDATE ... SET status, last_error WHERE job_id
SetBackfillStatus(row, status, last_error) ==
    [row EXCEPT !.status = status, !.last_error = last_error]

\* update_backfill_checkpoint: UPDATE ... SET last_index_name, last_ts,
\* last_sort_json (NULL when falsy), last_id WHERE job_id
UpdateBackfillCheckpoint(row, index_name, last_ts, last_sort_json, last_id) ==
    [row EXCEPT !.last_index_name = index_name, !.last_ts = last_ts,
                !.last_sort_json = IF last_sort_json # NoSort
                                   THEN last_sort_json ELSE NoSort,
                !.last_id = last_id]

\* upsert_ingestion_state: INSERT ... ON CONFLICT DO UPDATE of every column
UpsertIngestionState(row, last_ts, last_sort_json, last_id, status, last_error) ==
    [exists |-> TRUE, last_ts |-> last_ts, last_sort_json |-> last_sort_json,
     last_id |-> last_id, status |-> status, last_error |-> last_error]

\* set_ingestion_status that writes nothing
SetIngestionStatusNoop(row, status, last_error) == row

\* set_ingestion_status: UPDATE ... WHERE source_id AND index_name; it
\* changes nothing when the row does not exist
SetIngestionStatus(row, status, last_error) ==
    IF row.exists
    THEN [row EXCEPT !.status = status, !.last_error = last_error]
    ELSE row

\* _is_active with the status test dropped
IsActiveAlways(status) == TRUE

\* _is_active: latest.get("status") in {"pending", "running"}
IsActive(status) == status \in {"pending", "running"}

----------------------------------------------------------------------------
(* Retry loops *)

\* OpenSearchClient._request: for attempt in range(MAX_RETRIES); the call's
\* first `fails` attempts raise requests.RequestException. The result names
\* what the caller sees, the attempts made and the sleeps (as multiples of
\* BACKOFF_BASE_SECONDS) taken.
RECURSIVE RequestLoop(_, _, _, _)
RequestLoop(attempt, max_retries, fails, sleeps) ==
    IF attempt >= max_retries
    THEN [result |-> "RuntimeError", attempts |-> attempt, sleeps |-> sleeps]
    ELSE IF attempt < fails
    THEN IF attempt >= max_retries - 1
         THEN [result |-> "RequestException", attempts |-> attempt + 1,
               sleeps |-> sleeps]
         ELSE RequestLoop(attempt + 1, max_retries, fails,
                          Append(sleeps, 2 ^ attempt))
    ELSE [result |-> "ok", attempts |-> attempt + 1, sleeps |-> sleeps]

\* _request looping over range(MAX_RETRIES + 1)
RequestEager(max_retries, fails) == RequestLoop(0, max_retries + 1, fails, <<>>)

Request(max_retries, fails) == RequestLoop(0, max_retries, fails, <<>>)

\* _retry_clickhouse that gives up quietly after the last failed attempt
RECURSIVE RetryClickhouseQuietLoop(_, _, _, _)
RetryClickhouseQuietLoop(attempt, max_retries, fails, sleeps) ==
    IF attempt >= max_retries
    THEN [result |-> "noop", attempts |-> attempt, sleeps |-> sleeps]
    ELSE IF attempt < fails
    THEN IF attempt >= max_retries - 1
         THEN [result |-> "noop", attempts |-> attempt + 1, sleeps |-> sleeps]
         ELSE RetryClickhouseQuietLoop(attempt + 1, max_retries, fails,
                                       Append(sleeps, 2 ^ attempt))
    ELSE [result |-> "ok", attempts |-> attempt + 1, sleeps |-> sleeps]

RetryClickhouseQuiet(max_retries, fails) ==
    RetryClickhouseQuietLoop(0, max_retries, fails, <<>>)

\* _retry_clickhouse: the same loop around writer.insert_rows; when the range
\* is empty the function falls off its end and returns without inserting
RECURSIVE RetryClickhouseLoop(_, _, _, _)
RetryClickhouseLoop(attempt, max_retries, fails, sleeps) ==
    IF attempt >= max_retries
    THEN [result |-> "noop", attempts |-> attempt, sleeps |-> sleeps]
    ELSE IF attempt < fails
    THEN IF attempt >= max_retries - 1
         THEN [result |-> "RequestException", attempts |-> attempt + 1,
               sleeps |-> sleeps]
         ELSE RetryClickhouseLoop(attempt + 1, max_retries, fails,
                                  Append(sleeps, 2 ^ attempt))
    ELSE [result |-> "ok", attempts |-> attempt + 1, sleeps |-> sleeps]

RetryClickhouse(max_retries, fails) ==
    RetryClickhouseLoop(0, max_retries, fails, <<>>)

----------------------------------------------------------------------------
(* Configuration *)

\* Column values that are no ordinary number: NaN (a float or numeric column
\* may hold it) and a value that neither int() nor float() accepts
NaN == -1001
Uncastable == -1002

\* What cast(value) gives when it raises TypeError or ValueError
CastError == -1003

\* cast(value) with cast = int or float; int(NaN) raises ValueError,
\* float(NaN) is NaN
Cast(cast, value) ==
    IF value = Uncastable THEN CastError
    ELSE IF value = NaN /\ cast = "int" THEN CastError
    ELSE value

\* Python's a < b on numbers: every comparison with NaN is False
LessThan(a, b) == a # NaN /\ b # NaN /\ a < b

\* _apply_config_value: keep current when the value is NULL, when the cast
\* raises, or when next_value < minimum
ApplyConfigValue(current, value, cast, minimum) ==
    IF value = <<>> THEN current
    ELSE LET next_value == Cast(cast, value[1])
         IN IF next_value = CastError THEN current
            ELSE IF LessThan(next_value, minimum) THEN current
            ELSE next_value

\* The cast and the minimum _apply_puller_config passes for each setting
ConfigFields ==
    [poll_interval_seconds |-> [cast |-> "int", minimum |-> 1],
     overlap_minutes |-> [cast |-> "int", minimum |-> 0],
     batch_size |-> [cast |-> "int", minimum |-> 1],
     max_retries |-> [cast |-> "int", minimum |-> 0],
     backoff_base_seconds |-> [cast |-> "float", minimum |-> 0],
     rate_limit_seconds |-> [cast |-> "float", minimum |-> 0],
     opensearch_timeout_seconds |-> [cast |-> "int", minimum |-> 1],
     clickhouse_timeout_seconds |-> [cast |-> "int", minimum |-> 1]]

\* _apply_puller_config on the settings the record c holds (the worker's
\* state keeps the three the paged loop reads)
ApplyPullerConfig(c, row) ==
    [f \in DOMAIN c |->
        ApplyConfigValue(c[f], row[f], ConfigFields[f].cast,
                         ConfigFields[f].minimum)]

----------------------------------------------------------------------------
(* Search and rows *)

\* search(body) without the index_name argument
SearchRequestBare(use_pit, pit_id, index_name) ==
    [pit |-> IF use_pit /\ pit_id # 0 THEN pit_id ELSE 0, index |-> NoIndex]

\* lines 726-727 and 735: what a search request carries: the pit in the body
\* when a PIT is in use, the index in the path when none is
SearchRequest(use_pit, pit_id, index_name) ==
    [pit |-> IF use_pit /\ pit_id # 0 THEN pit_id ELSE 0,
     index |-> IF use_pit THEN NoIndex ELSE index_name]

\* The upstream's answer to one search request: the documents of the PIT's
\* index (a PIT's id is the index it was opened on), else of the index in the
\* path, else of every index, that are in the range filter and after
\* search_after, in sort order, `size` at most.
\* _build_query adds gte only when start_ts is set and lte only when end_ts is.
SearchPage(request, start_ts, end_ts, search_after, size) ==
    LET searched == IF request.pit # 0 THEN {request.pit}
                    ELSE IF request.index # NoIndex THEN {request.index}
                    ELSE IndexNames
        match == {d \in UNION {DocsOf(i) : i \in searched} :
                    /\ (start_ts = NoTs \/ d[1] >= start_ts)
                    /\ (end_ts = NoTs \/ d[1] <= end_ts)
                    /\ (search_after = NoSort \/ SortLT(search_after, d))}
    IN Take(SortDocs(match), size)

\* What parse_timestamp gives when dateutil's isoparse raises ValueError
ParseError == -1004

\* _extract_event_ts: parse_timestamp of the hit's _source[time_field]; an
\* ISO-8601 string gives its datetime, any other string makes isoparse raise
\* (`text` are the <<index, document>> stored in such a form)
ExtractEventTs(text, index_name, hit) ==
    IF <<index_name, hit>> \in text THEN ParseError ELSE hit[1]

\* _build_rows raises what _extract_event_ts raises on one of the hits
BuildRowsRaises(text, index_name, hits) ==
    \E k \in 1..Len(hits) : ExtractEventTs(text, index_name, hits[k]) = ParseError

\* _build_rows: one row per hit with a parseable timestamp
BuildRows(hits) == Range(hits)

\* line 749 without the assignment: the cursor is never advanced
NextSearchAfterStuck(search_after, last_sort) == search_after

\* lines 749-750: if last_sort: search_after = last_sort
NextSearchAfter(search_after, last_sort) ==
    IF last_sort # NoSort THEN last_sort ELSE search_after

\* The loop of _process_index (lines 719-764) run to its end with no call
\* failing and no status check stopping it: the search_after of each request
\* it sends, the last hit of each page it gets, the hits it inserts
RECURSIVE PagedLoop(_, _, _, _, _, _)
PagedLoop(request, start_ts, end_ts, search_after, size, log) ==
    LET hits == SearchPage(request, start_ts, end_ts, search_after, size)
        sent == [log EXCEPT !.reqLog = Append(@, search_after)]
    IN IF hits = <<>> THEN sent
       ELSE PagedLoop(request, start_ts, end_ts,
                      NextSearchAfter(search_after, hits[Len(hits)]), size,
                      [sent EXCEPT !.pageLog = Append(@, hits[Len(hits)]),
                                   !.loopRows = @ \o hits])

----------------------------------------------------------------------------
(* Initial state *)

InitPl ==
    [sources |-> <<>>, si |-> 0, job_id |-> 0, job |-> AbsentJob,
     indices |-> <<>>, idx |-> 0, resume_index |-> NoIndex,
     index_name |-> NoIndex, start_ts |-> NoTs, end_ts |-> NoTs,
     search_after |-> NoSort, is_backfill |-> FALSE,
     pit_id |-> 0, use_pit |-> FALSE, hits |-> <<>>,
     last_ts |-> NoTs, last_sort |-> NoSort, last_id |-> NoId, exc |-> ""]

NoStop ==
    [job |-> 0, index |-> NoIndex, sort |-> NoSort, finished |-> {},
     rows |-> {}, indices |-> <<>>]

InitGh ==
    [visited |-> {},          \* sources reached in this cycle
     nproc |-> 0,             \* indices this backfill run has processed
     accepted |-> {},         \* rows of the current batch the warehouse accepted
     ckptDone |-> FALSE,      \* the current batch's checkpoint step has run
     ckptLog |-> <<>>,        \* last_sort_json of each checkpoint of this loop
     reqLog |-> <<>>,         \* search_after of each request of this loop
     pageLog |-> <<>>,        \* sort of the last hit of each non-empty page
     loopRows |-> <<>>,       \* the documents this loop inserted, in order
     requests |-> <<>>,       \* what each search request of this loop carried
     loopEnd |-> "",          \* how this loop ended: "empty" page, "stopped"
                              \* by the status check, "raised"
     emptied |-> {},          \* indices of this backfill run whose loop ended
                              \* by an empty page
     pitOpened |-> 0,         \* PITs this loop's open_pit got an id for
     pitClosed |-> 0,         \* close_pit calls of this loop
     tailed |-> <<>>,         \* the indices this incremental run has handled
                              \* and how the loop of each ended
     boundaryCancel |-> FALSE,\* cancelled between a checkpoint and the next check
     lastCkpt |-> [j \in JobIds |-> NullPointer],  \* pointer each job's last
                              \* checkpoint write (or creation, or retry) left
     finished |-> [j \in JobIds |-> {}],  \* indices the job was advanced past
     jobRows |-> [j \in JobIds |-> {}],   \* <<index, doc>> the job has inserted
     stop |-> NoStop]         \* the job in progress when the worker was stopped

\* The puller's specifications leave the schema migrator and the single calls
\* aside: no metadata for the migrator, no run, an empty catalog, no call
NoMeta ==
    [projects |-> <<>>, bronze_tables |-> <<>>, bronze_fields |-> <<>>,
     field_rows |-> <<>>]

\* The warehouse's databases, tables, columns and views, and the rows of its
\* tables: <<database, table, row>>
EmptyCatalog ==
    [databases |-> {}, tables |-> {}, columns |-> {}, views |-> {}, rows |-> {}]

NoCall == [fn |-> "none"]

\* The metadata store holds no job and no ingestion state, the warehouse no
\* row; `enabled` are the enabled sources and `lim` what the run may do
InitPuller(enabled, lim, text) ==
    /\ jobs = [j \in JobIds |-> AbsentJob]
    /\ ing = [s \in Sources |-> [i \in IndexNames |-> NoRow]]
    /\ wh = [s \in Sources |-> [i \in IndexNames |-> [d \in DocsOf(i) |-> 0]]]
    /\ cfg = EnvConfig
    /\ pc = "cfg"
    /\ pl = InitPl
    /\ env = [enabled |-> enabled, lim |-> lim, text |-> text,
              cycles |-> 0, faults |-> 0, crashes |-> 0]
    /\ gh = InitGh
    /\ hb = "none"    \* no heartbeat row yet

InitWith(enabled, lim, text) ==
    /\ InitPuller(enabled, lim, text)
    /\ meta = NoMeta
    /\ runs = <<>>
    /\ ch = EmptyCatalog
    /\ call = NoCall

\* One enabled source; the worker is never stopped
Init ==
    InitWith({1}, [cycles |-> MaxCycles, faults |-> MaxFaults, crashes |-> 0,
                   jobs |-> MaxJobs], {})

\* One enabled source; the worker may be stopped and started again
InitCrash ==
    InitWith({1}, [cycles |-> MaxCycles, faults |-> MaxFaults,
                   crashes |-> MaxCrashes, jobs |-> MaxJobs], {})

\* Any of the sources enabled (none, some, all), one cycle less
InitSources ==
    \E enabled \in SUBSET Sources :
        InitWith(enabled, [cycles |-> MaxCycles - 1, faults |-> MaxFaults,
                           crashes |-> 0, jobs |-> MaxJobs], {})

\* One enabled source; the first document of each even index holds its time
\* field as text the upstream's date mapping accepts and ISO-8601 does not
\* (epoch milliseconds in a string, yyyy/MM/dd)
InitText ==
    InitWith({1}, [cycles |-> MaxCycles, faults |-> MaxFaults, crashes |-> 0,
                   jobs |-> MaxJobs],
             {<<i, <<1, 1>>>> : i \in {k \in IndexNames : k % 2 = 0}})

\* Every source enabled, and run_loop goes on for ever (the cycles are not
\* counted).  No HTTP call fails by an injected failure: a call raises where
\* MAX_RETRIES is saved as 0 (_request makes no attempt, line 398) and
\* _build_rows raises on the non-ISO time text of the even indices
InitLive ==
    InitWith(Sources, [cycles |-> 0, faults |-> 0, crashes |-> 0,
                       jobs |-> MaxJobs, forever |-> TRUE],
             {<<i, <<1, 1>>>> : i \in {k \in IndexNames : k % 2 = 0}})

\* One enabled source; the operator may create one job more, for any source
InitJobs ==
    InitWith({1}, [cycles |-> MaxCycles, faults |-> MaxFaults, crashes |-> 0,
                   jobs |-> MaxJobs + 1], {})

----------------------------------------------------------------------------
(* Helpers of the transitions *)

Src == pl.sources[pl.si]

\* Locals that are dead once a source has been handled
Cleared(p) == [InitPl EXCEPT !.sources = p.sources, !.si = p.si]

GhEnter(g) ==
    [g EXCEPT !.accepted = {}, !.ckptDone = FALSE, !.ckptLog = <<>>,
              !.reqLog = <<>>, !.pageLog = <<>>, !.loopRows = <<>>,
              !.requests = <<>>, !.loopEnd = "", !.pitOpened = 0,
              !.pitClosed = 0]

GhLeave(g) ==
    [GhEnter(g) EXCEPT !.nproc = 0, !.boundaryCancel = FALSE, !.emptied = {},
                       !.tailed = <<>>,
                       !.stop = IF g.stop.job # 0 /\ g.stop.job = pl.job_id
                                THEN NoStop ELSE g.stop]

\* An HTTP call whose attempts fail `fails` times may be taken when it ends
\* well, when it fails without any injected failure, or while the budget of
\* raised failures lasts
MayTake(out, fails) ==
    out.result = "ok" \/ out.result = "noop" \/ fails = 0 \/ env.faults < env.lim.faults

Charge(out, fails) ==
    IF out.result \in {"ok", "noop"} \/ fails = 0 THEN env
    ELSE [env EXCEPT !.faults = @ + 1]

\* Go on with the next source of the cycle (the `continue` of run_once)
LeaveSource ==
    /\ pc' = "src_next"
    /\ pl' = Cleared(pl)
    /\ gh' = GhLeave(gh)

----------------------------------------------------------------------------
(* run_once: the head of a cycle *)

\* lines 897-901: fetch_puller_config and _apply_puller_config.  The cycles
\* are counted up to the bound, or not at all when run_loop is to go on for
\* ever
LoadConfig ==
    /\ pc = "cfg"
    /\ "forever" \in DOMAIN env.lim \/ env.cycles < env.lim.cycles
    /\ \E row \in ConfigRows : cfg' = ApplyPullerConfig(cfg, row)
    /\ env' = [env EXCEPT !.cycles = IF "forever" \in DOMAIN env.lim
                                      THEN @ ELSE @ + 1]
    /\ pc' = "fetch_sources"
    /\ pl' = InitPl
    /\ gh' = [gh EXCEPT !.visited = {}]
    /\ UNCHANGED <<jobs, ing, wh>>
    /\ UNCHANGED <<hb, call, meta, runs, ch>>

\* lines 905-919: the 'running' heartbeat, then fetch_sources: the enabled
\* sources of enabled projects, ORDER BY source_id; none -> run_once returns
FetchSources ==
    /\ pc = "fetch_sources"
    /\ hb' = "running"
    /\ LET sources == SortInts(env.enabled)
       IN /\ pl' = [pl EXCEPT !.sources = sources, !.si = 1]
          /\ pc' = IF sources = <<>> THEN "sleep" ELSE "ensure_storage"
    /\ UNCHANGED <<jobs, ing, wh, cfg, env, gh>>
    /\ UNCHANGED <<call, meta, runs, ch>>

\* line 922: _ensure_project_storage re-raises what the warehouse raised, and
\* nothing in run_once catches it: the cycle ends in run_loop's handler
EnsureProjectStorage ==
    /\ pc = "ensure_storage"
    /\ gh' = [gh EXCEPT !.visited = @ \cup {Src}]
    /\ \/ /\ pc' = "fetch_job"
          /\ pl' = pl
          /\ env' = env
       \/ /\ env.faults < env.lim.faults
          /\ env' = [env EXCEPT !.faults = @ + 1]
          /\ pc' = "sleep"
          /\ pl' = InitPl
    /\ UNCHANGED <<jobs, ing, wh, cfg>>
    /\ UNCHANGED <<hb, call, meta, runs, ch>>

\* lines 923-925: _build_os_client, fetch_backfill_job
FetchBackfillJob ==
    /\ pc = "fetch_job"
    /\ LET j == FetchBackfillJobId(Src)
       IN /\ pl' = [pl EXCEPT !.job_id = j,
                              !.job = IF j = 0 THEN AbsentJob ELSE jobs[j]]
          /\ pc' = IF j # 0 THEN "bf_start" ELSE "inc_list"
    /\ UNCHANGED <<jobs, ing, wh, cfg, env, gh>>
    /\ UNCHANGED <<hb, call, meta, runs, ch>>

\* line 921, next iteration; lines 935-943 after the last source
NextSource ==
    /\ pc = "src_next"
    /\ IF pl.si < Len(pl.sources)
       THEN /\ pl' = [pl EXCEPT !.si = @ + 1]
            /\ pc' = "ensure_storage"
       ELSE /\ pl' = InitPl
            /\ pc' = "hb_idle"
    /\ UNCHANGED <<jobs, ing, wh, cfg, env, gh>>
    /\ UNCHANGED <<hb, call, meta, runs, ch>>

\* lines 935-943: the idle heartbeat, then run_once returns
EndCycle ==
    /\ pc = "hb_idle"
    /\ hb' = "idle"
    /\ pc' = "sleep"
    /\ UNCHANGED <<jobs, ing, wh, cfg, pl, env, gh>>
    /\ UNCHANGED <<call, meta, runs, ch>>

\* run_loop, line 956: time.sleep(POLL_INTERVAL_SECONDS)
Sleep ==
    /\ pc = "sleep"
    /\ pc' = "cfg"
    /\ UNCHANGED <<jobs, ing, wh, cfg, pl, env, gh>>
    /\ UNCHANGED <<hb, call, meta, runs, ch>>

----------------------------------------------------------------------------
(* _process_backfill *)

\* lines 778-780: the snapshot's status decides, not the stored one
BfStart ==
    /\ pc = "bf_start"
    /\ jobs' = IF pl.job.status = "pending"
               THEN [jobs EXCEPT ![pl.job_id] = SetBackfillStatus(@, "running", NoError)]
               ELSE jobs
    /\ pc' = "bf_list"
    /\ gh' = [gh EXCEPT !.nproc = 0, !.emptied = {}]
    /\ UNCHANGED <<ing, wh, cfg, pl, env>>
    /\ UNCHANGED <<hb, call, meta, runs, ch>>

\* lines 782-790: list_indices; no index -> complete; else the resume index
BfListIndices ==
    /\ pc = "bf_list"
    /\ \E fails \in FailCounts, listing \in Listings :
         LET out == Request(cfg.max_retries, fails)
         IN /\ MayTake(out, fails)
            /\ env' = Charge(out, fails)
            /\ IF out.result # "ok"
               THEN /\ pl' = [pl EXCEPT !.exc = out.result]
                    /\ pc' = "bf_fail"
               ELSE IF listing = <<>>
               THEN /\ pl' = pl
                    /\ pc' = "bf_empty_complete"
               ELSE /\ pl' = [pl EXCEPT
                                !.indices = listing, !.idx = 1,
                                !.resume_index =
                                    IF pl.job.last_index_name # NoIndex
                                       /\ pl.job.last_index_name \in Range(listing)
                                    THEN pl.job.last_index_name ELSE NoIndex]
                    /\ pc' = "bf_loop_check"
    /\ UNCHANGED <<jobs, ing, wh, cfg, gh>>
    /\ UNCHANGED <<hb, call, meta, runs, ch>>

\* line 784
BfEmptyComplete ==
    /\ pc = "bf_empty_complete"
    /\ jobs' = [jobs EXCEPT ![pl.job_id] = SetBackfillStatus(@, "completed", NoError)]
    /\ pc' = "bf_empty_clear"
    /\ UNCHANGED <<ing, wh, cfg, pl, env, gh>>
    /\ UNCHANGED <<hb, call, meta, runs, ch>>

\* lines 785-786
BfEmptyClear ==
    /\ pc = "bf_empty_clear"
    /\ jobs' = [jobs EXCEPT ![pl.job_id] =
                    UpdateBackfillCheckpoint(@, NoIndex, NoTs, NoSort, NoId)]
    /\ pc' = "src_next"
    /\ pl' = Cleared(pl)
    /\ gh' = [GhLeave(gh) EXCEPT !.lastCkpt[pl.job_id] = NullPointer]
    /\ UNCHANGED <<ing, wh, cfg, env>>
    /\ UNCHANGED <<hb, call, meta, runs, ch>>

\* lines 796-821: one iteration of the loop over the indices, up to the call
\* of _process_index
BfLoopCheck ==
    /\ pc = "bf_loop_check"
    /\ LET index_name == pl.indices[pl.idx]
       IN IF ~IsActive(jobs[pl.job_id].status)
          THEN LeaveSource
          ELSE IF pl.resume_index # NoIndex /\ index_name < pl.resume_index
          THEN /\ pl' = [pl EXCEPT !.idx = @ + 1]
               /\ pc' = IF pl.idx < Len(pl.indices)
                        THEN "bf_loop_check" ELSE "bf_final_check"
               /\ gh' = gh
          ELSE /\ pl' = [pl EXCEPT
                           !.index_name = index_name,
                           !.search_after = IF index_name = pl.resume_index
                                            THEN pl.job.last_sort_json ELSE NoSort,
                           !.start_ts = IF index_name = pl.resume_index
                                        THEN pl.job.last_ts ELSE pl.job.start_ts,
                           !.end_ts = pl.job.end_ts,
                           !.is_backfill = TRUE,
                           !.hits = <<>>, !.exc = "",
                           !.last_ts = NoTs, !.last_sort = NoSort, !.last_id = NoId]
               /\ pc' = "pit_open"
               /\ gh' = GhEnter(gh)
    /\ UNCHANGED <<jobs, ing, wh, cfg, env>>
    /\ UNCHANGED <<hb, call, meta, runs, ch>>

\* lines 823-825 without the check: the index is always advanced past
BfAfterCheckBlind ==
    /\ pc = "bf_after_check"
    /\ pc' = "bf_advance"
    /\ UNCHANGED <<jobs, ing, wh, cfg, pl, env, gh>>
    /\ UNCHANGED <<hb, call, meta, runs, ch>>

\* lines 823-825
BfAfterCheck ==
    /\ pc = "bf_after_check"
    /\ IF IsActive(jobs[pl.job_id].status)
       THEN /\ pc' = "bf_advance"
            /\ pl' = pl
            /\ gh' = gh
       ELSE LeaveSource
    /\ UNCHANGED <<jobs, ing, wh, cfg, env>>
    /\ UNCHANGED <<hb, call, meta, runs, ch>>

\* lines 827-829
BfAdvance ==
    /\ pc = "bf_advance"
    /\ LET next_index == IF pl.idx + 1 <= Len(pl.indices)
                         THEN pl.indices[pl.idx + 1] ELSE NoIndex
       IN /\ jobs' = [jobs EXCEPT ![pl.job_id] =
                         UpdateBackfillCheckpoint(@, next_index, NoTs, NoSort, NoId)]
          /\ pl' = [pl EXCEPT !.resume_index = next_index, !.idx = @ + 1]
          /\ pc' = IF next_index # NoIndex THEN "bf_loop_check" ELSE "bf_final_check"
          /\ gh' = [gh EXCEPT
                      !.nproc = @ + 1,
                      !.finished[pl.job_id] = @ \cup {pl.index_name},
                      !.lastCkpt[pl.job_id] =
                          [last_index_name |-> next_index, last_ts |-> NoTs,
                           last_sort_json |-> NoSort, last_id |-> NoId]]
    /\ UNCHANGED <<ing, wh, cfg, env>>
    /\ UNCHANGED <<hb, call, meta, runs, ch>>

\* line 831
BfFinalCheck ==
    /\ pc = "bf_final_check"
    /\ IF IsActive(jobs[pl.job_id].status)
       THEN /\ pc' = "bf_complete"
            /\ pl' = pl
            /\ gh' = gh
       ELSE LeaveSource
    /\ UNCHANGED <<jobs, ing, wh, cfg, env>>
    /\ UNCHANGED <<hb, call, meta, runs, ch>>

\* line 832
BfComplete ==
    /\ pc = "bf_complete"
    /\ jobs' = [jobs EXCEPT ![pl.job_id] = SetBackfillStatus(@, "completed", NoError)]
    /\ LeaveSource
    /\ UNCHANGED <<ing, wh, cfg, env>>
    /\ UNCHANGED <<hb, call, meta, runs, ch>>

\* run_once, lines 929-932: the handler of a failed backfill
BfFail ==
    /\ pc = "bf_fail"
    /\ jobs' = [jobs EXCEPT ![pl.job_id] = SetBackfillStatus(@, "failed", pl.exc)]
    /\ LeaveSource
    /\ UNCHANGED <<ing, wh, cfg, env>>
    /\ UNCHANGED <<hb, call, meta, runs, ch>>

----------------------------------------------------------------------------
(* _process_index: the paged search loop *)

\* lines 706-717: open_pit; any failure falls back to searching the index
OpenPit ==
    /\ pc = "pit_open"
    /\ \E fails \in FailCounts :
         LET out == Request(cfg.max_retries, fails)
         IN /\ pl' = [pl EXCEPT !.pit_id = IF out.result = "ok"
                                           THEN pl.index_name ELSE 0,
                                !.use_pit = (out.result = "ok")]
            /\ gh' = [gh EXCEPT !.pitOpened = IF out.result = "ok" THEN 1 ELSE 0]
    /\ pc' = "loop_top"
    /\ UNCHANGED <<jobs, ing, wh, cfg, env>>
    /\ UNCHANGED <<hb, call, meta, runs, ch>>

\* lines 719-733: build the body, then cancel_check (backfill only)
LoopTop ==
    /\ pc = "loop_top"
    /\ IF pl.is_backfill /\ ~IsActive(jobs[pl.job_id].status)
       THEN /\ pc' = "pit_close"
            /\ gh' = [gh EXCEPT !.loopEnd = "stopped"]
       ELSE /\ pc' = "search"
            /\ gh' = gh
    /\ UNCHANGED <<jobs, ing, wh, cfg, pl, env>>
    /\ UNCHANGED <<hb, call, meta, runs, ch>>

\* lines 735-738: os_client.search; an empty page ends the loop
Search ==
    /\ pc = "search"
    /\ \E fails \in FailCounts :
         LET out == Request(cfg.max_retries, fails)
             request == SearchRequest(pl.use_pit, pl.pit_id, pl.index_name)
             hits == SearchPage(request, pl.start_ts, pl.end_ts,
                                pl.search_after, cfg.batch_size)
         IN /\ MayTake(out, fails)
            /\ env' = Charge(out, fails)
            /\ IF out.result # "ok"
               THEN /\ pl' = [pl EXCEPT !.exc = out.result]
                    /\ pc' = "pit_close"
                    /\ gh' = IF out.attempts > 0
                             THEN [gh EXCEPT !.reqLog = Append(@, pl.search_after),
                                             !.requests = Append(@, request),
                                             !.loopEnd = "raised"]
                             ELSE [gh EXCEPT !.loopEnd = "raised"]
               ELSE /\ pl' = [pl EXCEPT !.hits = hits]
                    /\ pc' = IF hits = <<>> THEN "pit_close" ELSE "insert"
                    /\ gh' = [gh EXCEPT
                                !.reqLog = Append(@, pl.search_after),
                                !.requests = Append(@, request),
                                !.loopEnd = IF hits = <<>> THEN "empty" ELSE @,
                                !.emptied = IF hits = <<>> /\ pl.is_backfill
                                            THEN @ \cup {pl.index_name} ELSE @,
                                !.pageLog = IF hits = <<>> THEN @
                                            ELSE Append(@, hits[Len(hits)]),
                                !.accepted = {}, !.ckptDone = FALSE]
    /\ UNCHANGED <<jobs, ing, wh, cfg>>
    /\ UNCHANGED <<hb, call, meta, runs, ch>>

\* lines 740-750: _process_hits (_build_rows, _retry_clickhouse, the last
\* hit's timestamp, sort and id), then the cursor moves to the last sort.
\* The warehouse counts the copies of a row; where run_loop goes on for ever
\* it keeps only that the row is there
ProcessHits ==
    /\ pc = "insert"
    /\ \E fails \in FailCounts :
         LET raises == BuildRowsRaises(env.text, pl.index_name, pl.hits)
             rows == BuildRows(pl.hits)
             out == IF raises
                    THEN [result |-> "ValueError", attempts |-> 0, sleeps |-> <<>>]
                    ELSE IF rows = {}
                    THEN [result |-> "noop", attempts |-> 0, sleeps |-> <<>>]
                    ELSE RetryClickhouse(cfg.max_retries, fails)
             last_hit == pl.hits[Len(pl.hits)]
         IN /\ raises => fails = 0
            /\ MayTake(out, fails)
            /\ env' = Charge(out, fails)
            /\ IF out.result \notin {"ok", "noop"}
               THEN /\ pl' = [pl EXCEPT !.exc = out.result]
                    /\ pc' = "pit_close"
                    /\ wh' = wh
                    /\ gh' = [gh EXCEPT !.loopEnd = "raised"]
               ELSE /\ wh' = IF out.result = "ok"
                             THEN [wh EXCEPT ![Src][pl.index_name] =
                                     [d \in DOMAIN @ |->
                                        IF d \notin rows THEN @[d]
                                        ELSE IF "forever" \in DOMAIN env.lim
                                        THEN 1 ELSE @[d] + 1]]
                             ELSE wh
                    /\ gh' = [gh EXCEPT
                                !.accepted = IF out.result = "ok" THEN rows ELSE {},
                                !.loopRows = IF out.result = "ok" THEN @ \o pl.hits
                                             ELSE @,
                                !.jobRows = IF out.result = "ok" /\ pl.is_backfill
                                            THEN [@ EXCEPT ![pl.job_id] = @ \cup
                                                    {<<pl.index_name, d>> : d \in rows}]
                                            ELSE @]
                    /\ pl' = [pl EXCEPT
                                !.last_ts = last_hit[1],
                                !.last_sort = last_hit,
                                !.last_id = last_hit[2],
                                !.search_after = NextSearchAfter(pl.search_after, last_hit)]
                    /\ pc' = "ckpt"
    /\ UNCHANGED <<jobs, ing, cfg>>
    /\ UNCHANGED <<hb, call, meta, runs, ch>>

\* lines 752-762: persist the checkpoint of the batch
Checkpoint ==
    /\ pc = "ckpt"
    /\ IF pl.is_backfill /\ pl.job_id # 0
       THEN /\ jobs' = [jobs EXCEPT ![pl.job_id] =
                          UpdateBackfillCheckpoint(@, pl.index_name, pl.last_ts,
                                                   pl.last_sort, pl.last_id)]
            /\ ing' = ing
            /\ gh' = [gh EXCEPT
                        !.ckptDone = TRUE,
                        !.ckptLog = Append(@, pl.last_sort),
                        !.lastCkpt[pl.job_id] =
                            [last_index_name |-> pl.index_name, last_ts |-> pl.last_ts,
                             last_sort_json |-> pl.last_sort, last_id |-> pl.last_id]]
       ELSE IF pl.last_ts # NoTs /\ pl.last_sort # NoSort
       THEN /\ ing' = [ing EXCEPT ![Src][pl.index_name] =
                         UpsertIngestionState(@, pl.last_ts, pl.last_sort,
                                              pl.last_id, "running", NoError)]
            /\ jobs' = jobs
            /\ gh' = [gh EXCEPT !.ckptDone = TRUE,
                                !.ckptLog = Append(@, pl.last_sort)]
       ELSE /\ UNCHANGED <<jobs, ing>>
            /\ gh' = [gh EXCEPT !.ckptDone = TRUE]
    /\ pc' = "throttle"
    /\ UNCHANGED <<wh, cfg, pl, env>>
    /\ UNCHANGED <<hb, call, meta, runs, ch>>

\* line 764: _sleep_rate_limit, then the next iteration
Throttle ==
    /\ pc = "throttle"
    /\ pc' = "loop_top"
    /\ UNCHANGED <<jobs, ing, wh, cfg, pl, env, gh>>
    /\ UNCHANGED <<hb, call, meta, runs, ch>>

\* close_pit after the loop instead of in a finally clause: not reached when
\* the loop raises
ClosePitAfterLoop ==
    /\ pc = "pit_close"
    /\ \E fails \in FailCounts :
         LET out == Request(cfg.max_retries, fails)
             called == pl.pit_id # 0 /\ pl.exc = ""
             exc == IF called /\ out.result = "RuntimeError"
                    THEN out.result ELSE pl.exc
         IN /\ pl' = [pl EXCEPT !.pit_id = 0, !.exc = exc]
            /\ gh' = [gh EXCEPT !.pitClosed = IF called THEN @ + 1 ELSE @]
            /\ pc' = IF exc # ""
                     THEN (IF pl.is_backfill THEN "bf_fail" ELSE "inc_error")
                     ELSE (IF pl.is_backfill THEN "bf_after_check" ELSE "inc_idle")
    /\ UNCHANGED <<jobs, ing, wh, cfg, env>>
    /\ UNCHANGED <<hb, call, meta, runs, ch>>

\* lines 765-768: finally close_pit when there is a pit id (its
\* RequestException is swallowed, lines 432-436), then return to the caller
\* or let the loop's exception travel on
ClosePit ==
    /\ pc = "pit_close"
    /\ \E fails \in FailCounts :
         LET out == Request(cfg.max_retries, fails)
             called == pl.pit_id # 0
             exc == IF called /\ out.result = "RuntimeError"
                    THEN out.result ELSE pl.exc
         IN /\ pl' = [pl EXCEPT !.pit_id = 0, !.exc = exc]
            /\ gh' = [gh EXCEPT !.pitClosed = IF called THEN @ + 1 ELSE @]
            /\ pc' = IF exc # ""
                     THEN (IF pl.is_backfill THEN "bf_fail" ELSE "inc_error")
                     ELSE (IF pl.is_backfill THEN "bf_after_check" ELSE "inc_idle")
    /\ UNCHANGED <<jobs, ing, wh, cfg, env>>
    /\ UNCHANGED <<hb, call, meta, runs, ch>>

----------------------------------------------------------------------------
(* _process_incremental *)

\* lines 841-843: list_indices is outside every try: what it raises ends the
\* cycle in run_loop's handler
IncListIndices ==
    /\ pc = "inc_list"
    /\ \E fails \in FailCounts, listing \in Listings :
         LET out == Request(cfg.max_retries, fails)
         IN /\ MayTake(out, fails)
            /\ env' = Charge(out, fails)
            /\ IF out.result # "ok"
               THEN /\ pl' = InitPl
                    /\ pc' = "sleep"
                    /\ gh' = gh
               ELSE IF listing = <<>>
               THEN LeaveSource
               ELSE /\ pl' = [pl EXCEPT !.indices = listing, !.idx = 1]
                    /\ pc' = "inc_state"
                    /\ gh' = gh
    /\ UNCHANGED <<jobs, ing, wh, cfg>>
    /\ UNCHANGED <<hb, call, meta, runs, ch>>

\* line 853 without the test of the overlap
UseSearchAfterAlways(last_ts, overlap) == last_ts # NoTs

\* line 853: last_ts is not None and overlap.total_seconds() <= 0
UseSearchAfter(last_ts, overlap) == last_ts # NoTs /\ overlap <= 0

\* lines 845-868: the window and cursor of one index
IncFetchState ==
    /\ pc = "inc_state"
    /\ LET index_name == pl.indices[pl.idx]
           state == ing[Src][index_name]
           last_ts == IF state.exists THEN state.last_ts ELSE NoTs
           overlap == cfg.overlap_minutes
           use_search_after == UseSearchAfter(last_ts, overlap)
       IN pl' = [pl EXCEPT
                   !.index_name = index_name,
                   !.start_ts = IF last_ts # NoTs THEN last_ts - overlap
                                ELSE Now - overlap,
                   !.end_ts = Now,
                   !.search_after = IF state.exists /\ use_search_after
                                    THEN state.last_sort_json ELSE NoSort,
                   !.is_backfill = FALSE,
                   !.hits = <<>>, !.exc = "",
                   !.last_ts = NoTs, !.last_sort = NoSort, !.last_id = NoId]
    /\ pc' = "pit_open"
    /\ gh' = GhEnter(gh)
    /\ UNCHANGED <<jobs, ing, wh, cfg, env>>
    /\ UNCHANGED <<hb, call, meta, runs, ch>>

\* line 869
IncSetIdle ==
    /\ pc = "inc_idle"
    /\ ing' = [ing EXCEPT ![Src][pl.index_name] = SetIngestionStatus(@, "idle", NoError)]
    /\ pc' = "inc_next"
    /\ gh' = [gh EXCEPT !.tailed = Append(@, [index |-> pl.index_name,
                                              end |-> gh.loopEnd])]
    /\ UNCHANGED <<jobs, wh, cfg, pl, env>>
    /\ UNCHANGED <<hb, call, meta, runs, ch>>

\* lines 870-872
IncSetError ==
    /\ pc = "inc_error"
    /\ ing' = [ing EXCEPT ![Src][pl.index_name] = SetIngestionStatus(@, "error", pl.exc)]
    /\ pc' = "inc_next"
    /\ gh' = [gh EXCEPT !.tailed = Append(@, [index |-> pl.index_name,
                                              end |-> gh.loopEnd])]
    /\ UNCHANGED <<jobs, wh, cfg, pl, env>>
    /\ UNCHANGED <<hb, call, meta, runs, ch>>

\* line 848, next iteration, or the function returns
IncNext ==
    /\ pc = "inc_next"
    /\ IF pl.idx < Len(pl.indices)
       THEN /\ pl' = [pl EXCEPT !.idx = @ + 1, !.exc = ""]
            /\ pc' = "inc_state"
            /\ gh' = gh
       ELSE LeaveSource
    /\ UNCHANGED <<jobs, ing, wh, cfg, env>>
    /\ UNCHANGED <<hb, call, meta, runs, ch>>

----------------------------------------------------------------------------
(* The operator (pages/5_Backfill.py, source_manager/app.py) *)

\* INSERT INTO metadata.backfill_jobs (...) VALUES (..., 'pending', ...)
OperatorCreate ==
    /\ \E j \in JobIds, s \in Sources, w \in BackfillWindows :
         /\ j <= env.lim.jobs
         /\ jobs[j].status = "absent"
         /\ \A k \in JobIds : k < j => jobs[k].status # "absent"
         /\ jobs' = [jobs EXCEPT ![j] =
                       [AbsentJob EXCEPT !.source_id = s, !.status = "pending",
                                         !.start_ts = w[1], !.end_ts = w[2]]]
         /\ gh' = [gh EXCEPT !.lastCkpt[j] = NullPointer, !.finished[j] = {},
                             !.jobRows[j] = {}]
    /\ UNCHANGED <<ing, wh, cfg, pc, pl, env>>
    /\ UNCHANGED <<hb, call, meta, runs, ch>>

\* Cancel Job: UPDATE ... SET status = 'cancelled' WHERE job_id AND status IN
\* ('pending', 'running')
OperatorCancel ==
    /\ \E j \in JobIds :
         /\ jobs[j].status \in {"pending", "running"}
         /\ jobs' = [jobs EXCEPT ![j].status = "cancelled"]
         /\ gh' = [gh EXCEPT !.boundaryCancel =
                      @ \/ (/\ pc \in {"throttle", "loop_top"}
                            /\ pl.is_backfill /\ pl.job_id = j
                            /\ gh.ckptDone
                            /\ jobs[j].status = "running")]
    /\ UNCHANGED <<ing, wh, cfg, pc, pl, env>>
    /\ UNCHANGED <<hb, call, meta, runs, ch>>

\* Retry Failed: UPDATE ... SET status = 'pending', last_error = NULL and the
\* resume pointer NULL WHERE job_id AND status = 'failed'
OperatorRetry ==
    /\ \E j \in JobIds :
         /\ jobs[j].status = "failed"
         /\ jobs' = [jobs EXCEPT ![j] =
                       [@ EXCEPT !.status = "pending", !.last_error = NoError,
                                 !.last_index_name = NoIndex, !.last_ts = NoTs,
                                 !.last_sort_json = NoSort, !.last_id = NoId]]
         /\ gh' = [gh EXCEPT !.lastCkpt[j] = NullPointer, !.finished[j] = {},
                             !.jobRows[j] = {}]
    /\ UNCHANGED <<ing, wh, cfg, pc, pl, env>>
    /\ UNCHANGED <<hb, call, meta, runs, ch>>

----------------------------------------------------------------------------
(* The worker is stopped and started again: run_loop starts over with the
   config module's defaults *)

\* The index the backfill run is inside, if any
InProgress ==
    IF pl.job_id # 0 /\ pl.index_name \notin gh.finished[pl.job_id]
    THEN pl.index_name ELSE NoIndex

Crash ==
    /\ pc # "cfg"
    /\ env.crashes < env.lim.crashes
    /\ env' = [env EXCEPT !.crashes = @ + 1]
    /\ pc' = "cfg"
    /\ pl' = InitPl
    /\ cfg' = EnvConfig
    /\ gh' = [GhEnter(gh) EXCEPT
                !.nproc = 0, !.boundaryCancel = FALSE, !.emptied = {},
                !.tailed = <<>>,
                !.stop = IF pl.job_id # 0 /\ jobs[pl.job_id].status = "running"
                         THEN [job |-> pl.job_id,
                               index |-> InProgress,
                               sort |-> IF InProgress # NoIndex
                                           /\ jobs[pl.job_id].last_index_name = InProgress
                                        THEN jobs[pl.job_id].last_sort_json
                                        ELSE NoSort,
                               finished |-> gh.finished[pl.job_id],
                               rows |-> gh.jobRows[pl.job_id],
                               indices |-> pl.indices]
                         ELSE gh.stop]
    /\ UNCHANGED <<jobs, ing, wh>>
    /\ UNCHANGED <<hb, call, meta, runs, ch>>

----------------------------------------------------------------------------

NextNoCrash ==
    \/ LoadConfig \/ FetchSources \/ EnsureProjectStorage \/ FetchBackfillJob
    \/ NextSource \/ EndCycle \/ Sleep
    \/ BfStart \/ BfListIndices \/ BfEmptyComplete \/ BfEmptyClear
    \/ BfLoopCheck \/ BfAfterCheck \/ BfAdvance \/ BfFinalCheck
    \/ BfComplete \/ BfFail
    \/ OpenPit \/ LoopTop \/ Search \/ ProcessHits \/ Checkpoint
    \/ Throttle \/ ClosePit
    \/ IncListIndices \/ IncFetchState \/ IncSetIdle \/ IncSetError \/ IncNext
    \/ OperatorCreate \/ OperatorCancel \/ OperatorRetry

Next == NextNoCrash

NextCrash == NextNoCrash \/ Crash

\* One source, the operator, failing HTTP calls
Spec == Init /\ [][Next]_vars

\* The same, and the worker may be stopped at any point
SpecCrash == InitCrash /\ [][NextCrash]_vars

\* run_loop never ends (while True, lines 951-956) and the worker's process
\* is always scheduled: whenever the worker has a next step it takes it.  The
\* operator acts or not
SpecLive ==
    /\ InitLive
    /\ [][Next]_vars
    /\ WF_vars(\/ LoadConfig \/ FetchSources \/ EnsureProjectStorage
                \/ FetchBackfillJob \/ NextSource \/ EndCycle \/ Sleep
                \/ BfStart \/ BfListIndices \/ BfEmptyComplete \/ BfEmptyClear
                \/ BfLoopCheck \/ BfAfterCheck \/ BfAdvance \/ BfFinalCheck
                \/ BfComplete \/ BfFail
                \/ OpenPit \/ LoopTop \/ Search \/ ProcessHits \/ Checkpoint
                \/ Throttle \/ ClosePit
                \/ IncListIndices \/ IncFetchState \/ IncSetIdle \/ IncSetError
                \/ IncNext)

\* Every source enabled, one cycle
SpecSources == InitSources /\ [][Next]_vars

\* One source whose even indices hold a document with a non-ISO time text
SpecText == InitText /\ [][Next]_vars

\* One source, and the operator may queue a second job
SpecJobs == InitJobs /\ [][Next]_vars

----------------------------------------------------------------------------
(* Single calls: one function of the code applied once to arguments drawn
   from bounded sets, the arguments and the result kept in `call` *)

MaxLen == 3        \* characters of the strings given to require_identifier

pullerVars == <<jobs, ing, wh, cfg, pc, pl, env, gh, hb>>
migratorVars == <<meta, runs, ch>>

\* What the upstream may answer to one HTTP attempt
Answers == {"2xx", "4xx", "5xx", "timeout"}

\* session.request and response.raise_for_status(): a 4xx or 5xx status is
\* raised as requests.HTTPError, a transport failure as ConnectionError
Raised(answer) ==
    CASE answer = "2xx" -> "none"
      [] answer \in {"4xx", "5xx"} -> "HTTPError"
      [] OTHER -> "ConnectionError"

\* except requests.RequestException: HTTPError, ConnectionError and Timeout
\* are subclasses of it
IsRequestException(exc) == exc \in {"HTTPError", "ConnectionError", "Timeout"}

\* OpenSearchClient._request against the upstream's answers to the successive
\* attempts (answers[attempt + 1] is the answer to `attempt`)
RECURSIVE RequestAnsweredLoop(_, _, _, _)
RequestAnsweredLoop(attempt, max_retries, answers, sleeps) ==
    IF attempt >= max_retries
    THEN [result |-> "RuntimeError", attempts |-> attempt, sleeps |-> sleeps]
    ELSE LET exc == Raised(answers[attempt + 1])
         IN IF exc = "none"
            THEN [result |-> "ok", attempts |-> attempt + 1, sleeps |-> sleeps]
            ELSE IF ~IsRequestException(exc) \/ attempt >= max_retries - 1
            THEN [result |-> exc, attempts |-> attempt + 1, sleeps |-> sleeps]
            ELSE RequestAnsweredLoop(attempt + 1, max_retries, answers,
                                     Append(sleeps, 2 ^ attempt))

RequestAnswered(max_retries, answers) ==
    RequestAnsweredLoop(0, max_retries, answers, <<>>)

\* OpenSearchClient.search: one _request whose attempts get `answers`
CallSearch ==
    /\ call = NoCall
    /\ \E max_retries \in 0..DefaultMaxRetries, answers \in [1..DefaultMaxRetries -> Answers] :
         call' = [fn |-> "search", max_retries |-> max_retries,
                  answers |-> answers,
                  out |-> RequestAnswered(max_retries, answers)]
    /\ UNCHANGED pullerVars
    /\ UNCHANGED migratorVars

\* _request whose first `fails` attempts fail transiently
CallRequest ==
    /\ call = NoCall
    /\ \E max_retries \in 0..DefaultMaxRetries, fails \in FailCounts :
         call' = [fn |-> "_request", max_retries |-> max_retries,
                  fails |-> fails, out |-> Request(max_retries, fails)]
    /\ UNCHANGED pullerVars
    /\ UNCHANGED migratorVars

\* _retry_clickhouse whose first `fails` inserts fail transiently
CallRetryClickhouse ==
    /\ call = NoCall
    /\ \E max_retries \in 0..DefaultMaxRetries, fails \in FailCounts :
         call' = [fn |-> "_retry_clickhouse", max_retries |-> max_retries,
                  fails |-> fails, out |-> RetryClickhouse(max_retries, fails)]
    /\ UNCHANGED pullerVars
    /\ UNCHANGED migratorVars

\* The class [A-Za-z0-9_] of _IDENTIFIER_RE
IdentifierChars ==
    {"a", "b", "c", "d", "e", "f", "g", "h", "i", "j", "k", "l", "m", "n",
     "o", "p", "q", "r", "s", "t", "u", "v", "w", "x", "y", "z",
     "A", "B", "C", "D", "E", "F", "G", "H", "I", "J", "K", "L", "M", "N",
     "O", "P", "Q", "R", "S", "T", "U", "V", "W", "X", "Y", "Z",
     "0", "1", "2", "3", "4", "5", "6", "7", "8", "9", "_"}

\* Strings as sequences of characters, MaxLen characters at most, made of
\* the characters Chars
Strings ==
    LET Chars == {"a", "Z", "0", "_", "-", "\n"}
    IN UNION {[1..n -> Chars] : n \in 0..MaxLen}

\* _IDENTIFIER_RE.match(value) for ^[A-Za-z0-9_]+$ : one or more characters
\* of the class from the start of the string, then `$`, which without
\* re.MULTILINE matches at the end of the string and just before a newline
\* that is the string's last character
IdentifierReMatch(value) ==
    LET DollarAt(k) ==
            \/ k = Len(value)
            \/ k = Len(value) - 1 /\ value[Len(value)] = "\n"
    IN \E k \in 1..Len(value) :
           /\ \A i \in 1..k : value[i] \in IdentifierChars
           /\ DollarAt(k)

\* require_identifier of both utils.py: "ok" when value is returned,
\* "ValueError" when it raises
RequireIdentifier(value) ==
    IF value = <<>> \/ ~IdentifierReMatch(value) THEN "ValueError" ELSE "ok"

CallRequireIdentifier ==
    /\ call = NoCall
    /\ \E value \in Strings :
         call' = [fn |-> "require_identifier", value |-> value,
                  out |-> RequireIdentifier(value)]
    /\ UNCHANGED pullerVars
    /\ UNCHANGED migratorVars

\* config.py defaults of the settings the worker's state leaves out
DefaultPollIntervalSeconds == 30
DefaultBackoffBaseSeconds == 1
DefaultRateLimitSeconds == 0
DefaultOpensearchTimeoutSeconds == 30
DefaultClickhouseTimeoutSeconds == 30

\* Every setting _apply_puller_config validates, at its default
FullEnvConfig ==
    [poll_interval_seconds |-> DefaultPollIntervalSeconds,
     overlap_minutes |-> DefaultOverlapMinutes,
     batch_size |-> DefaultBatchSize,
     max_retries |-> DefaultMaxRetries,
     backoff_base_seconds |-> DefaultBackoffBaseSeconds,
     rate_limit_seconds |-> DefaultRateLimitSeconds,
     opensearch_timeout_seconds |-> DefaultOpensearchTimeoutSeconds,
     clickhouse_timeout_seconds |-> DefaultClickhouseTimeoutSeconds]

\* Column values of a row: NULL, a number below, at or above the minimum;
\* for the float columns NaN as well, for one column a value no cast accepts
FullConfigRows ==
    LET IntColumn == {<<>>, <<0>>, <<2>>}
        FloatColumn == {<<>>, <<-1>>, <<0>>, <<NaN>>}
    IN
    [poll_interval_seconds : IntColumn \cup {<<Uncastable>>},
     overlap_minutes : IntColumn,
     batch_size : IntColumn,
     max_retries : IntColumn,
     backoff_base_seconds : FloatColumn,
     rate_limit_seconds : FloatColumn,
     opensearch_timeout_seconds : IntColumn,
     clickhouse_timeout_seconds : {<<>>, <<0>>}]

CallApplyPullerConfig ==
    /\ call = NoCall
    /\ \E row \in FullConfigRows :
         call' = [fn |-> "_apply_puller_config", current |-> FullEnvConfig,
                  row |-> row, out |-> ApplyPullerConfig(FullEnvConfig, row)]
    /\ UNCHANGED pullerVars
    /\ UNCHANGED migratorVars

\* _load_secret, lines 482-489, with _decrypt_secret, lines 463-479.
\* `file` is what open(secret_ref) meets: unreadable (OSError) or readable
\* with a content; secret_enc is no blob, a Fernet token of the configured
\* key holding `plain`, UTF-8 text, or bytes that are neither; `key` is
\* whether SECRET_KEY is configured. The result is None or a text.
LoadSecret(secret_ref, file, secret_enc, key) ==
    LET None == [none |-> TRUE, text |-> <<>>]
        Text(t) == [none |-> FALSE, text |-> t]
        \* str.strip(): the content without its leading and trailing whitespace
        Strip(t) ==
            LET inner == {k \in 1..Len(t) : t[k] # "\n"}
            IN IF inner = {} THEN <<>>
               ELSE SubSeq(t, CHOOSE k \in inner : \A i \in inner : k <= i,
                              CHOOSE k \in inner : \A i \in inner : k >= i)
        \* blob.decode("utf-8"), None on UnicodeDecodeError
        Decode == IF secret_enc.kind \in {"token", "utf8"}
                  THEN Text(secret_enc.text) ELSE None
        DecryptSecret ==
            IF secret_enc.kind = "none" \/ secret_enc.text = <<>> THEN None
            ELSE IF ~key THEN Decode
            ELSE IF secret_enc.kind = "token" THEN Text(secret_enc.plain)
            ELSE Decode
    IN IF secret_ref # <<>> /\ file.readable
       THEN Text(Strip(file.content))
       ELSE DecryptSecret

\* _load_secret on a source's secret_ref (None or a path) and secret_enc
CallLoadSecret ==
    /\ call = NoCall
    /\ \E secret_ref \in {<<>>, <<"a">>},
          file \in {[readable |-> FALSE, content |-> <<>>]}
                   \cup {[readable |-> TRUE, content |-> t] : t \in Strings},
          secret_enc \in {[kind |-> "none", text |-> <<>>, plain |-> <<>>],
                          [kind |-> "utf8", text |-> <<"Z">>, plain |-> <<>>],
                          [kind |-> "token", text |-> <<"_">>, plain |-> <<"0">>],
                          [kind |-> "bytes", text |-> <<"-">>, plain |-> <<>>]},
          key \in BOOLEAN :
         call' = [fn |-> "_load_secret", secret_ref |-> secret_ref,
                  file |-> file, secret_enc |-> secret_enc, key |-> key,
                  out |-> LoadSecret(secret_ref, file, secret_enc, key)]
    /\ UNCHANGED pullerVars
    /\ UNCHANGED migratorVars

\* 1e11, the threshold of parse_timestamp, in units of 1e8
EpochThreshold == 1000

\* A datetime is [e5, sec, micro]: blocks of 1e5 seconds since the epoch,
\* seconds within the block, microseconds; always in UTC. A text is the
\* date and time fields to the second (as e5, sec), the separator, the
\* digits of the fraction and the zone designator.
\* format_timestamp: isoformat(timespec="milliseconds") cuts the fraction to
\* three digits; "+00:00" becomes "Z"
FormatTimestamp(value) ==
    LET ms == value.micro \div 1000
    IN [kind |-> "str", e5 |-> value.e5, sec |-> value.sec, sep |-> "T",
        frac |-> <<ms \div 100, (ms \div 10) % 10, ms % 10>>, zone |-> "Z"]

\* format_timestamp_ch: strftime("%Y-%m-%d %H:%M:%S.%f") ends with the six
\* digits of the microseconds; [:-3] drops the last three characters
FormatTimestampCh(value) ==
    LET f == [k \in 1..6 |-> (value.micro \div (10 ^ (6 - k))) % 10]
    IN [kind |-> "str", e5 |-> value.e5, sec |-> value.sec, sep |-> " ",
        frac |-> SubSeq(f, 1, Len(f) - 3), zone |-> ""]

\* parse_timestamp with the threshold test >= instead of >
ParseTimestampFrom(value) ==
    IF value.kind = "number"
    THEN IF value.k >= EpochThreshold
         THEN [e5 |-> value.k, sec |-> value.r \div 1000,
               micro |-> (value.r % 1000) * 1000]
         ELSE [e5 |-> value.k * 1000 + value.r \div 100000,
               sec |-> value.r % 100000, micro |-> 0]
    ELSE [e5 |-> value.e5, sec |-> value.sec,
          micro |-> (100 * value.frac[1] + 10 * value.frac[2] + value.frac[3])
                    * 1000]

\* parse_timestamp, lines 25-33. A number is k * 1e8 + r: above 1e11 it is
\* epoch milliseconds, else epoch seconds. A text goes to isoparse, which
\* takes any single character as separator and up to six digits of
\* fraction; a text without zone designator is given UTC, "Z" is UTC.
ParseTimestamp(value) ==
    IF value.kind = "number"
    THEN IF value.k > EpochThreshold \/ (value.k = EpochThreshold /\ value.r > 0)
         THEN [e5 |-> value.k, sec |-> value.r \div 1000,
               micro |-> (value.r % 1000) * 1000]
         ELSE [e5 |-> value.k * 1000 + value.r \div 100000,
               sec |-> value.r % 100000, micro |-> 0]
    ELSE LET digits == [k \in 1..6 |-> IF k <= Len(value.frac)
                                        THEN value.frac[k] ELSE 0]
         IN [e5 |-> value.e5, sec |-> value.sec,
             micro |-> 100000 * digits[1] + 10000 * digits[2]
                       + 1000 * digits[3] + 100 * digits[4]
                       + 10 * digits[5] + digits[6]]

\* parse_timestamp of a number, or of what one of the formatters makes of a
\* datetime t (with whole milliseconds or not)
CallParseTimestamp ==
    /\ call = NoCall
    /\ \/ \E k \in {0, 17, EpochThreshold - 1, EpochThreshold,
                      EpochThreshold + 1, 17 * 1000},
              r \in {0, 1, 123456, 99999999} :
             LET value == [kind |-> "number", k |-> k, r |-> r]
             IN call' = [fn |-> "parse_timestamp", value |-> value,
                         out |-> ParseTimestamp(value)]
       \/ \E e5 \in {0, 17000}, sec \in {0, 1, 99999},
              micro \in {0, 1000, 7000, 120000, 123000, 999000, 1, 123456,
                         999999},
              format \in {"format_timestamp", "format_timestamp_ch"} :
             LET t == [e5 |-> e5, sec |-> sec, micro |-> micro]
                 value == IF format = "format_timestamp"
                          THEN FormatTimestamp(t) ELSE FormatTimestampCh(t)
             IN call' = [fn |-> "parse_timestamp", format |-> format, t |-> t,
                         value |-> value, out |-> ParseTimestamp(value)]
    /\ UNCHANGED pullerVars
    /\ UNCHANGED migratorVars

----------------------------------------------------------------------------
(* The JSON-path compiler of the schema migrator (migrator.py, 84-193).  An
   expression is the sequence of its pieces of text: the characters that come
   from the column type and the paths, and the fixed text around them *)

\* _coerce_expression applying nullIf to every type
CoerceExpressionNullIf(expr, base_type) == <<"nullIf(">> \o expr \o <<", '')">>

\* _coerce_expression, lines 135-152
CoerceExpression(expr, base_type) ==
    LET StartsWith(s, p) == Len(s) >= Len(p) /\ SubSeq(s, 1, Len(p)) = p
        IsDigit(s) ==
            /\ s # <<>>
            /\ \A k \in 1..Len(s) :
                  s[k] \in {"0", "1", "2", "3", "4", "5", "6", "7", "8", "9"}
        Bits(n) == IF IsDigit(SubSeq(base_type, n + 1, Len(base_type)))
                   THEN SubSeq(base_type, n + 1, Len(base_type))
                   ELSE <<"6", "4">>
    IN IF base_type = <<>> THEN expr
       ELSE IF StartsWith(base_type, <<"D", "a", "t", "e", "T", "i", "m", "e">>)
       THEN <<"parseDateTime64BestEffortOrNull(">> \o expr \o <<")">>
       ELSE IF StartsWith(base_type, <<"I", "P", "v", "6">>)
       THEN <<"toIPv6OrNull(">> \o expr \o <<")">>
       ELSE IF StartsWith(base_type, <<"U", "I", "n", "t">>)
       THEN <<"toUInt">> \o Bits(4) \o <<"OrNull(">> \o expr \o <<")">>
       ELSE IF StartsWith(base_type, <<"I", "n", "t">>)
       THEN <<"toInt">> \o Bits(3) \o <<"OrNull(">> \o expr \o <<")">>
       ELSE IF StartsWith(base_type, <<"F", "l", "o", "a", "t">>)
       THEN <<"toFloat64OrNull(">> \o expr \o <<")">>
       ELSE <<"nullIf(">> \o expr \o <<", '')">>

\* _build_column_expr, lines 155-193, with _split_paths (84-93),
\* _normalize_json_path (96-103), _unwrap_nullable (106-110),
\* _build_json_extract_path and _array_extract_expr (113-132) and
\* _build_value_expr (155-162): the expression, or the ValueError of
\* require_identifier on a `__` source column
BuildColumnExpr(column_type, json_path) ==
    LET StartsWith(s, p) == Len(s) >= Len(p) /\ SubSeq(s, 1, Len(p)) = p
        From(s, n) == SubSeq(s, n + 1, Len(s))
        \* str.strip()
        Strip(s) ==
            LET kept == {k \in 1..Len(s) : s[k] \notin {" ", "\n"}}
            IN IF kept = {} THEN <<>>
               ELSE SubSeq(s, CHOOSE k \in kept : \A i \in kept : k <= i,
                              CHOOSE k \in kept : \A i \in kept : k >= i)
        \* the non-empty items of s split at the characters of seps
        Pieces(s, seps) ==
            LET starts == {i \in 1..Len(s) :
                              s[i] \notin seps /\ (i = 1 \/ s[i - 1] \in seps)}
                End(i) == CHOOSE j \in i..Len(s) :
                              /\ \A x \in i..j : s[x] \notin seps
                              /\ j = Len(s) \/ s[j + 1] \in seps
                Nth(k) == CHOOSE i \in starts :
                              Cardinality({x \in starts : x < i}) = k - 1
            IN [k \in 1..Cardinality(starts) |-> SubSeq(s, Nth(k), End(Nth(k)))]
        \* _split_paths: splitlines, split(","), strip, the non-empty items
        chunks == Pieces(json_path, {",", "\n"})
        paths == SelectSeq([k \in 1..Len(chunks) |-> Strip(chunks[k])],
                           LAMBDA item : item # <<>>)
        NormalizeJsonPath(path) ==
            IF StartsWith(path, <<"$">>) THEN path
            ELSE IF StartsWith(path, <<"@">>) THEN <<"$", ".", "\"">> \o path \o <<"\"">>
            ELSE <<"$", ".">> \o path
        stripped == Strip(column_type)
        base_type ==
            IF StartsWith(stripped, <<"N", "u", "l", "l", "a", "b", "l", "e", "(">>) /\ stripped[Len(stripped)] = ")"
            THEN Strip(SubSeq(stripped, 10, Len(stripped) - 1))
            ELSE stripped
        JsonValue(path) == <<"JSON_VALUE(raw, '">> \o NormalizeJsonPath(path) \o <<"')">>
        BuildValueExpr(path) ==
            IF StartsWith(path, <<"e", "p", "o", "c", "h", "_", "m", "s", ":">>)
            THEN <<"fromUnixTimestamp64Milli(toInt64OrNull(">>
                 \o JsonValue(Strip(From(path, 9))) \o <<"))">>
            ELSE CoerceExpression(JsonValue(path), base_type)
        ArrayExtractExpr(path) ==
            LET parts == Pieces(IF StartsWith(path, <<"$">>) THEN From(path, 1) ELSE path,
                                {"."})
                n == Len(parts)
                raw[k \in 1..n] ==
                    IF k = 1 THEN <<"JSONExtractRaw(raw, '">> \o parts[1] \o <<"')">>
                    ELSE <<"JSONExtractRaw(">> \o raw[k - 1] \o <<", '">>
                         \o parts[k] \o <<"')">>
            IN IF n = 0 THEN <<"CAST([] AS ">> \o base_type \o <<")">>
               ELSE IF n = 1
               THEN <<"JSONExtract(raw, '">> \o parts[1] \o <<"', '">>
                    \o base_type \o <<"')">>
               ELSE <<"JSONExtract(">> \o raw[n - 1] \o <<", '">> \o parts[n]
                    \o <<"', '">> \o base_type \o <<"')">>
        is_array == StartsWith(base_type, <<"A", "r", "r", "a", "y", "(">>)
        exprs == [k \in 1..Len(paths) |->
                    IF StartsWith(paths[k], <<"_", "_">>) THEN From(paths[k], 2)
                    ELSE IF is_array THEN ArrayExtractExpr(paths[k])
                    ELSE BuildValueExpr(paths[k])]
        raises == \E k \in 1..Len(paths) :
                     /\ StartsWith(paths[k], <<"_", "_">>)
                     /\ RequireIdentifier(From(paths[k], 2)) = "ValueError"
        ifNull[k \in 1..Len(paths)] ==
            IF k = 1 THEN exprs[1]
            ELSE <<"ifNull(">> \o ifNull[k - 1] \o <<", ">> \o exprs[k] \o <<")">>
        joined[k \in 1..Len(paths)] ==
            IF k = 1 THEN exprs[1] ELSE joined[k - 1] \o <<", ">> \o exprs[k]
    IN IF paths = <<>>
       THEN [exc |-> "", expr |-> <<"CAST(NULL AS ">> \o column_type \o <<")">>]
       ELSE IF raises THEN [exc |-> "ValueError", expr |-> <<>>]
       ELSE IF is_array
       THEN [exc |-> "",
             expr |-> <<"ifNull(">> \o ifNull[Len(paths)] \o <<", [])">>]
       ELSE IF Len(paths) = 1 THEN [exc |-> "", expr |-> exprs[1]]
       ELSE [exc |-> "",
             expr |-> <<"coalesce(">> \o joined[Len(paths)] \o <<")">>]

\* _build_column_expr of a column type and of a json_path that lists paths
\* with commas, blanks and newlines between them.  A type comes with the
\* class the compiler is to find in it and the width of its function; a path
\* with what it is (a JSON path, a `__` source column, an `epoch_ms:` path)
\* and the JSON path or column it stands for
CallBuildColumnExpr ==
    LET Type(text, class, bits) == [text |-> text, class |-> class, bits |-> bits]
        Path(text, kind, target) == [text |-> text, kind |-> kind, target |-> target]
        ColumnTypes ==
            {Type(<<"S", "t", "r", "i", "n", "g">>, "other", <<>>),
             Type(<<"N", "u", "l", "l", "a", "b", "l", "e", "(", "S", "t", "r", "i", "n", "g", ")">>, "other", <<>>),
             Type(<<" ", "N", "u", "l", "l", "a", "b", "l", "e", "(", " ", "D", "a", "t", "e", "T", "i", "m", "e", "6", "4", "(", "3", ")", " ", ")">>, "DateTime", <<>>),
             Type(<<"N", "u", "l", "l", "a", "b", "l", "e", "(", "I", "P", "v", "6", ")">>, "IPv6", <<>>),
             Type(<<"U", "I", "n", "t", "1", "6">>, "UInt", <<"1", "6">>),
             Type(<<"N", "u", "l", "l", "a", "b", "l", "e", "(", "I", "n", "t", "8", ")">>, "Int", <<"8">>),
             Type(<<"I", "n", "t">>, "Int", <<"6", "4">>),
             Type(<<"F", "l", "o", "a", "t", "3", "2">>, "Float", <<"6", "4">>),
             Type(<<"I", "P", "v", "4">>, "other", <<>>),
             Type(<<"A", "r", "r", "a", "y", "(", "S", "t", "r", "i", "n", "g", ")">>, "Array", <<>>)}
        A == Path(<<"a">>, "json", <<"$", ".", "a">>)
        B == Path(<<"b", ".", "c">>, "json", <<"$", ".", "b", ".", "c">>)
        Dollar == Path(<<"$", ".", "d">>, "json", <<"$", ".", "d">>)
        At == Path(<<"@", "t">>, "json", <<"$", ".", "\"", "@", "t", "\"">>)
        Raw == Path(<<"_", "_", "r", "a", "w">>, "source", <<"r", "a", "w">>)
        Bad == Path(<<"_", "_", "r", "-">>, "source", <<"r", "-">>)
        Epoch == Path(<<"e", "p", "o", "c", "h", "_", "m", "s", ":", "a">>, "epoch", <<"$", ".", "a">>)
        PathLists ==
            {<<>>, <<A>>, <<B>>, <<Dollar>>, <<At>>, <<A, B>>, <<B, A>>,
             <<A, B, Dollar>>, <<Raw>>, <<Bad>>, <<A, Raw>>, <<Epoch>>,
             <<Epoch, A>>}
        Separators == {<<",">>, <<",", " ">>, <<"\n">>, <<" ", ",", ",", "\n", " ">>}
        Join(paths, sep) ==
            LET join[k \in 0..Len(paths)] ==
                    IF k = 0 THEN <<>>
                    ELSE IF k = 1 THEN paths[1].text
                    ELSE join[k - 1] \o sep \o paths[k].text
            IN join[Len(paths)]
    IN /\ call = NoCall
       /\ \E type \in ColumnTypes, paths \in PathLists, sep \in Separators,
             tail \in {<<>>, <<",", " ">>} :
            LET json_path == Join(paths, sep) \o tail
            IN call' = [fn |-> "_build_column_expr", type |-> type, paths |-> paths,
                        json_path |-> json_path,
                        out |-> BuildColumnExpr(type.text, json_path)]
       /\ UNCHANGED pullerVars
       /\ UNCHANGED migratorVars

\* No run of the worker, nothing in the stores: only the calls
InitCalls ==
    InitWith({}, [cycles |-> 0, faults |-> 0, crashes |-> 0, jobs |-> 0], {})

NextCalls ==
    \/ CallSearch \/ CallRequest \/ CallRetryClickhouse
    \/ CallRequireIdentifier \/ CallApplyPullerConfig
    \/ CallLoadSecret \/ CallParseTimestamp
    \/ CallBuildColumnExpr

SpecCalls == InitCalls /\ [][NextCalls]_vars

----------------------------------------------------------------------------
(* The schema migrator (schema_migrator/migrator.py): names and metadata *)

\* Two calls of apply_schema against one warehouse
RunIds == {1, 2}

\* Strings are sequences of characters, as for require_identifier
BronzeSuffix == <<"_", "b", "r", "o", "n", "z", "e">>
GoldSuffix == <<"_", "g", "o", "l", "d">>
OsEventsRaw == <<"o", "s", "_", "e", "v", "e", "n", "t", "s", "_", "r", "a", "w">>
EventTs == <<"e", "v", "e", "n", "t", "_", "t", "s">>
EventId == <<"e", "v", "e", "n", "t", "_", "i", "d">>

\* A NULL or empty project_id
Null == <<>>

Alias == <<"A", "L", "I", "A", "S">>
Materialized == <<"M", "A", "T", "E", "R", "I", "A", "L", "I", "Z", "E", "D">>
GoldLayers ==
    {<<"g", "o", "l", "d", "_", "f", "a", "c", "t">>,
     <<"g", "o", "l", "d", "_", "d", "i", "m">>,
     Tail(GoldSuffix)}

\* value.strip().upper() or value.strip().lower()
StripCase(value, upper) ==
    LET lo == <<"a", "b", "c", "d", "e", "f", "g", "h", "i", "j", "k", "l", "m", "n", "o", "p", "q", "r", "s", "t", "u", "v", "w", "x", "y", "z">>
        up == <<"A", "B", "C", "D", "E", "F", "G", "H", "I", "J", "K", "L", "M", "N", "O", "P", "Q", "R", "S", "T", "U", "V", "W", "X", "Y", "Z">>
        from == IF upper THEN lo ELSE up
        to == IF upper THEN up ELSE lo
        Map(c) == IF c \in Range(from)
                  THEN to[CHOOSE k \in 1..26 : from[k] = c] ELSE c
        kept == {k \in 1..Len(value) : value[k] # " "}
        first == CHOOSE k \in kept : \A i \in kept : k <= i
        last == CHOOSE k \in kept : \A i \in kept : k >= i
    IN IF kept = {} THEN <<>>
       ELSE [k \in 1..(last - first + 1) |-> Map(value[first + k - 1])]

\* What the metadata tables may hold (the rows the four _fetch_* functions
\* return, lines 12-78):
\*   Good: one parsing table of every project, with event_ts read from a JSON
\*     path and a column read from the raw table's column `raw`;
\*     field-registry rows that add a column to it, name an unknown layer,
\*     and address the parsing table by a dotted name, with mode
\*     ' materialized' and an expression
\*   Rejected: the same table; a field-registry row for a table the gold
\*     database does not hold, then one that adds a column to the parsing table
\*   SourceColumn: the same table, its column read from a source column `r-`
\*   Names: a table name and a column name outside the identifier class, a
\*     table without event_ts, a table without columns; a field-registry row
\*     with a column name outside the class
\*   TableProject: a parsing table of a project that is not enabled
\*   FieldProject: two enabled projects; a field-registry row of a project
\*     that is not enabled, then one of every project with an expression and
\*     the mode 'DEFAULT'
\*   BadProject: an enabled project whose id is outside the identifier class
\*   SortKey: a table with event_ts and event_id, then a table with event_id
\*     and no event_ts
MetaChoices ==
    LET P1 == <<"p", "1">>      \* enabled
        P2 == <<"p", "2">>      \* not enabled
        P3 == <<"p", "3">>      \* enabled
        PBad == <<"p", "-">>
        BronzeTable(table_id, project_id, table_name) ==
            [table_id |-> table_id, project_id |-> project_id,
             table_name |-> table_name]
        BronzeField(table_id, column_name, json_path) ==
            [table_id |-> table_id, column_name |-> column_name,
             json_path |-> json_path]
        FieldRow(field_id, project_id, layer, table_name, column_name, mode,
                 expression_sql) ==
            [field_id |-> field_id, project_id |-> project_id, layer |-> layer,
             table_name |-> table_name, column_name |-> column_name,
             mode |-> mode, expression_sql |-> expression_sql]
        Bronze == <<"b", "r", "o", "n", "z", "e">>
        Expr == <<"r", "a", "w">>
        Good ==
            [projects |-> <<P1>>,
             bronze_tables |-> <<BronzeTable(1, Null, <<"t">>)>>,
             bronze_fields |-> <<BronzeField(1, EventTs, <<"a">>),
                                 BronzeField(1, <<"c">>, <<"_", "_", "r", "a", "w">>)>>,
             field_rows |-> <<FieldRow(1, Null, Bronze, <<"t">>, <<"x">>, Null, Null),
                              FieldRow(2, Null, <<"s", "i", "l", "v", "e", "r">>, <<"t">>, <<"x">>, Null, Expr),
                              FieldRow(3, Null, <<"g", "o", "l", "d", "_", "f", "a", "c", "t">>,
                                       P1 \o BronzeSuffix \o <<".">> \o <<"t">>,
                                       <<"y">>, <<" ", "m", "a", "t", "e", "r", "i", "a", "l", "i", "z", "e", "d">>, Expr)>>]
        Rejected ==
            [projects |-> <<P1>>,
             bronze_tables |-> <<BronzeTable(1, Null, <<"t">>)>>,
             bronze_fields |-> <<BronzeField(1, EventTs, <<"a">>)>>,
             field_rows |-> <<FieldRow(1, P1, <<" ", "G", "o", "l", "d">>, <<"t">>, <<"x">>, Null, Expr),
                              FieldRow(2, Null, Bronze, <<"t">>, <<"x">>,
                                       <<"A", "L", "I", "A", "S">>, Null)>>]
        SourceColumn ==
            [projects |-> <<P1>>,
             bronze_tables |-> <<BronzeTable(1, Null, <<"t">>)>>,
             bronze_fields |-> <<BronzeField(1, EventTs, <<"a">>),
                                 BronzeField(1, <<"c">>, <<"_", "_", "r", "-">>)>>,
             field_rows |-> <<>>]
        Names ==
            [projects |-> <<P1>>,
             bronze_tables |-> <<BronzeTable(1, Null, <<"t", "-">>),
                                 BronzeTable(2, P1, <<"t">>),
                                 BronzeTable(3, Null, <<"u">>),
                                 BronzeTable(4, Null, <<"v">>)>>,
             bronze_fields |-> <<BronzeField(1, EventTs, <<"a">>),
                                 BronzeField(2, <<"c", " ">>, <<"a">>),
                                 BronzeField(2, EventTs, <<"a">>),
                                 BronzeField(3, <<"c">>, <<>>)>>,
             field_rows |-> <<FieldRow(1, Null, Bronze, <<"u">>, <<"c", " ">>,
                                       Null, Null)>>]
        TableProject ==
            [projects |-> <<P1>>,
             bronze_tables |-> <<BronzeTable(1, P2, <<"t">>)>>,
             bronze_fields |-> <<BronzeField(1, EventTs, <<"a">>)>>,
             field_rows |-> <<>>]
        FieldProject ==
            [projects |-> <<P1, P3>>,
             bronze_tables |-> <<BronzeTable(1, P3, <<"t">>)>>,
             bronze_fields |-> <<BronzeField(1, EventTs, <<"a">>)>>,
             field_rows |-> <<FieldRow(1, P2, Bronze, <<"t">>, <<"x">>, Null, Null),
                              FieldRow(2, Null, Bronze, <<"t">>, <<"x">>,
                                       <<"D", "E", "F", "A", "U", "L", "T">>, Expr)>>]
        BadProject ==
            [projects |-> <<PBad>>,
             bronze_tables |-> <<>>,
             bronze_fields |-> <<>>,
             field_rows |-> <<>>]
        SortKey ==
            [projects |-> <<P1>>,
             bronze_tables |-> <<BronzeTable(1, Null, <<"t">>),
                                 BronzeTable(2, P1, <<"u">>)>>,
             bronze_fields |-> <<BronzeField(1, EventTs, <<"a">>),
                                 BronzeField(1, EventId, <<"b">>),
                                 BronzeField(2, EventId, <<"b">>)>>,
             field_rows |-> <<>>]
    IN {Good, Rejected, SourceColumn, Names, TableProject, FieldProject,
        BadProject, SortKey}

----------------------------------------------------------------------------
(* The schema migrator: the steps of one run *)

\* One step of a unit: a statement sent with ch.execute, an exception raised
\* by the unit's own code, or the unit's entry in the results.  `handler` is
\* the except clause around the step: "propagate" (none: apply_schema
\* raises), "collect" (except Exception: an 'error' entry when collecting,
\* else raise) or "skip" (except ValueError: a 'skipped' entry, continue)
Statement(kind, db, name, arg, handler) ==
    [kind |-> kind, db |-> db, name |-> name, arg |-> arg, handler |-> handler]

Raise(exc, handler) == [kind |-> "raise", exc |-> exc, handler |-> handler]

Result(status) == [kind |-> "result", status |-> status]

\* A unit: its kind, the id of its metadata row, the identifiers it builds
\* its SQL from, its steps
Unit(kind, id, identifiers, ops) ==
    [kind |-> kind, id |-> id, identifiers |-> identifiers, ops |-> ops]

RECURSIVE Flatten(_)
Flatten(seqs) ==
    IF seqs = <<>> THEN <<>> ELSE Head(seqs) \o Flatten(Tail(seqs))

\* _ensure_default_bronze_columns, lines 338-352: table_exists and, for the
\* tables found, one ALTER
DefaultColumnsUnit ==
    Unit("defaults", 0, {},
         <<[kind |-> "default_columns", handler |-> "propagate"]>>)

\* _ensure_project_storage, lines 355-379
StorageUnit(project_id) ==
    LET bronze_db == project_id \o BronzeSuffix
        gold_db == project_id \o GoldSuffix
        OsEventsRawColumns ==
            {EventId, EventTs,
             <<"i", "n", "d", "e", "x", "_", "n", "a", "m", "e">>,
             <<"s", "o", "u", "r", "c", "e", "_", "i", "d">>, <<"r", "a", "w">>,
             <<"i", "n", "g", "e", "s", "t", "e", "d", "_", "a", "t">>,
             <<"e", "x", "t", "r", "a", "s">>}
    IN Unit("storage", 0, {project_id},
            IF RequireIdentifier(project_id) = "ValueError"
            THEN <<Raise("ValueError", "propagate")>>
            ELSE <<Statement("create_database", bronze_db, <<>>, <<>>, "propagate"),
                   Statement("create_database", gold_db, <<>>, <<>>, "propagate"),
                   Statement("create_table", bronze_db, OsEventsRaw,
                             OsEventsRawColumns, "propagate")>>)

\* _resolve_target_projects taking every enabled project for every row
ResolveTargetProjectsAll(row, project_ids) == [exc |-> "", projects |-> project_ids]

\* _resolve_target_projects, lines 382-391: the row's project when it is
\* enabled, every enabled project when the row names none.  For a project
\* that is not enabled the warning reads row["field_id"], which a
\* bronze_event_tables row does not have (lines 46-59): KeyError
ResolveTargetProjects(row, project_ids) ==
    IF row.project_id # Null
    THEN IF row.project_id \notin Range(project_ids)
         THEN IF "field_id" \in DOMAIN row
              THEN [exc |-> "", projects |-> <<>>]
              ELSE [exc |-> "KeyError", projects |-> <<>>]
         ELSE [exc |-> "", projects |-> <<row.project_id>>]
    ELSE [exc |-> "", projects |-> project_ids]

\* _build_column_expr, lines 165-193: the source columns of a json_path, one
\* for each of its paths (_split_paths; the metadata's json_path holds no
\* comma, newline or blank) that starts with "__": what follows the "__"
SourceColumns(json_path) ==
    LET paths == IF json_path = <<>> THEN <<>> ELSE <<json_path>>
        StartsWithDunder(path) == Len(path) >= 2 /\ path[1] = "_" /\ path[2] = "_"
    IN {SubSeq(paths[k], 3, Len(paths[k])) :
           k \in {i \in 1..Len(paths) : StartsWithDunder(paths[i])}}

\* _build_column_expr raises what require_identifier raises on a source column
BuildColumnExprRaises(json_path) ==
    \E source_col \in SourceColumns(json_path) :
        RequireIdentifier(source_col) = "ValueError"

\* any(col["column_name"] == name ...) found for every table
HasColumnAlways(columns, name) == TRUE

\* any(col["column_name"] == name for col in columns_sorted), lines 272-273
HasColumn(columns, name) == name \in Range(columns)

\* _apply_bronze_event_tables, lines 259-334, for one table and one project:
\* the guards before CREATE TABLE (262-275), CREATE with its ORDER BY and
\* one ALTER per column (277-292), the select list and the view's name
\* (294-301), DROP and CREATE of the view (302-313), the 'applied' entry
\* (315-322)
TableUnit(project_id, table, rows) ==
    LET table_name == table.table_name
        bronze_db == project_id \o BronzeSuffix
        mv_name == table_name \o <<"_", "m", "v">>
        columns == [k \in 1..Len(rows) |-> rows[k].column_name]
        early ==
            \/ RequireIdentifier(table_name) = "ValueError"
            \/ RequireIdentifier(bronze_db) = "ValueError"
            \/ \E k \in 1..Len(rows) : RequireIdentifier(columns[k]) = "ValueError"
            \/ ~HasColumn(columns, EventTs)
        late ==
            \/ \E k \in 1..Len(rows) : BuildColumnExprRaises(rows[k].json_path)
            \/ RequireIdentifier(OsEventsRaw) = "ValueError"
            \/ RequireIdentifier(mv_name) = "ValueError"
        create ==
            <<[kind |-> "create_table", db |-> bronze_db, name |-> table_name,
               arg |-> Range(columns), handler |-> "collect",
               order_by |-> IF HasColumn(columns, EventId)
                            THEN <<EventTs, EventId>> ELSE <<EventTs>>]>>
        alter ==
            [k \in 1..Len(rows) |->
                Statement("add_column", bronze_db, table_name, columns[k], "collect")]
        view ==
            <<Statement("drop_table", bronze_db, mv_name, <<>>, "collect"),
              Statement("create_view", bronze_db, mv_name, table_name, "collect")>>
    IN Unit("table", table.table_id,
            {project_id, table_name} \cup Range(columns)
                \cup UNION {SourceColumns(rows[k].json_path) : k \in 1..Len(rows)},
            IF early THEN <<Raise("ValueError", "collect")>>
            ELSE IF late THEN create \o alter \o <<Raise("ValueError", "collect")>>
            ELSE create \o alter \o view \o <<Result("applied")>>)

\* _apply_bronze_event_tables, lines 241-258, for one row of
\* bronze_event_tables: 'skipped' without columns, else its target projects
TableUnits(m, table) ==
    LET rows == SelectSeq(m.bronze_fields, LAMBDA f : f.table_id = table.table_id)
        target == ResolveTargetProjects(table, m.projects)
    IN IF rows = <<>>
       THEN <<Unit("table", table.table_id, {}, <<Result("skipped")>>)>>
       ELSE IF target.exc # ""
       THEN <<Unit("table", table.table_id, {},
                   <<Raise(target.exc, "propagate")>>)>>
       ELSE [k \in 1..Len(target.projects) |->
                TableUnit(target.projects[k], table, rows)]

\* row["table_name"].split(".", 1): <<db_part, table_part>> of a dotted
\* name, <<table_name>> without a dot
SplitTableName(table_name) ==
    IF "." \notin Range(table_name) THEN <<table_name>>
    ELSE LET dot == CHOOSE k \in 1..Len(table_name) :
                       /\ table_name[k] = "."
                       /\ \A i \in 1..(k - 1) : table_name[i] # "."
         IN <<SubSeq(table_name, 1, dot - 1),
              SubSeq(table_name, dot + 1, Len(table_name))>>

\* _resolve_target_table, lines 394-400
ResolveTargetTable(db_name, table_name) ==
    IF Len(SplitTableName(table_name)) = 2 THEN SplitTableName(table_name)
    ELSE <<db_name, table_name>>

\* The identifiers a field-registry row is checked for, lines 434-441
FieldIdentifiers(project_id, row) ==
    {project_id, row.column_name} \cup Range(SplitTableName(row.table_name))

\* _apply_field_registry, lines 431-495, for one row and one project: the
\* guard, then one ALTER TABLE ... ADD COLUMN IF NOT EXISTS, with `<mode>
\* <expression_sql>` after the type when the row has an expression (a NULL
\* and an empty expression_sql are alike: Null)
FieldUnit(project_id, row, db_suffix) ==
    LET target == ResolveTargetTable(project_id \o db_suffix, row.table_name)
        mode == StripCase(IF row.mode = Null THEN Alias ELSE row.mode, TRUE)
        clause ==
            IF row.expression_sql = Null THEN <<>>
            ELSE <<IF mode \in {Alias, Materialized} THEN mode ELSE Alias,
                   row.expression_sql>>
    IN Unit("field", row.field_id, FieldIdentifiers(project_id, row),
            IF \E n \in FieldIdentifiers(project_id, row) :
                   RequireIdentifier(n) = "ValueError"
            THEN <<Raise("ValueError", "skip")>>
            ELSE <<[kind |-> "add_column", db |-> target[1], name |-> target[2],
                    arg |-> row.column_name, handler |-> "collect",
                    clause |-> clause],
                   Result("applied")>>)

\* _apply_field_registry, lines 411-431, for one row of field_registry
FieldUnits(m, row) ==
    LET target == ResolveTargetProjects(row, m.projects)
        layer == StripCase(row.layer, FALSE)
    IN IF layer = Tail(BronzeSuffix)
       THEN [k \in 1..Len(target.projects) |->
                FieldUnit(target.projects[k], row, BronzeSuffix)]
       ELSE IF layer \in GoldLayers
       THEN [k \in 1..Len(target.projects) |->
                FieldUnit(target.projects[k], row, GoldSuffix)]
       ELSE <<Unit("field", row.field_id, {}, <<Result("skipped")>>)>>

\* apply_schema with the parsing tables applied before the projects' storage
UnitsTablesFirst(m) ==
    <<DefaultColumnsUnit>>
    \o Flatten([k \in 1..Len(m.bronze_tables) |-> TableUnits(m, m.bronze_tables[k])])
    \o [k \in 1..Len(m.projects) |-> StorageUnit(m.projects[k])]
    \o Flatten([k \in 1..Len(m.field_rows) |-> FieldUnits(m, m.field_rows[k])])

\* apply_schema, lines 499-543: the units of one run, in order
Units(m) ==
    <<DefaultColumnsUnit>>
    \o [k \in 1..Len(m.projects) |-> StorageUnit(m.projects[k])]
    \o Flatten([k \in 1..Len(m.bronze_tables) |-> TableUnits(m, m.bronze_tables[k])])
    \o Flatten([k \in 1..Len(m.field_rows) |-> FieldUnits(m, m.field_rows[k])])

----------------------------------------------------------------------------
(* The warehouse's answers to the migrator's statements *)

Exists(c, db, name) == <<db, name>> \in c.tables \cup c.views

Accepted(c) == [ok |-> TRUE, ch |-> c]

\* ClickHouseClient.execute raises HTTPError (raise_for_status, db.py)
Rejected(c) == [ok |-> FALSE, ch |-> c]

\* ALTER TABLE bronze.<table> ADD COLUMN IF NOT EXISTS raw, extras for the
\* legacy tables that table_exists finds
ExecDefaultColumns(c) ==
    LET bronze == <<"b", "r", "o", "n", "z", "e">>
        tables ==
            {<<"s", "u", "r", "i", "c", "a", "t", "a", "_", "e", "v", "e", "n", "t", "s", "_", "r", "a", "w">>,
             <<"w", "a", "z", "u", "h", "_", "e", "v", "e", "n", "t", "s", "_", "r", "a", "w">>,
             <<"z", "e", "e", "k", "_", "e", "v", "e", "n", "t", "s", "_", "r", "a", "w">>}
    IN Accepted([c EXCEPT !.columns = @ \cup
                   {<<bronze, t, col>> :
                       t \in {n \in tables : <<bronze, n>> \in c.tables},
                       col \in {<<"r", "a", "w">>, <<"e", "x", "t", "r", "a", "s">>}}])

\* CREATE DATABASE IF NOT EXISTS
ExecCreateDatabase(c, db) == Accepted([c EXCEPT !.databases = @ \cup {db}])

\* CREATE TABLE without IF NOT EXISTS semantics: the table is made anew
ExecCreateTableAnew(c, db, name, cols) ==
    IF db \notin c.databases THEN Rejected(c)
    ELSE Accepted([c EXCEPT
                     !.tables = @ \cup {<<db, name>>},
                     !.views = @ \ {<<db, name>>},
                     !.rows = {x \in @ : <<x[1], x[2]>> # <<db, name>>},
                     !.columns = {x \in @ : <<x[1], x[2]>> # <<db, name>>}
                                 \cup {<<db, name, col>> : col \in cols}])

\* CREATE TABLE IF NOT EXISTS: nothing happens when the name is taken
ExecCreateTable(c, db, name, cols) ==
    IF db \notin c.databases THEN Rejected(c)
    ELSE IF Exists(c, db, name) THEN Accepted(c)
    ELSE Accepted([c EXCEPT
                     !.tables = @ \cup {<<db, name>>},
                     !.columns = @ \cup {<<db, name, col>> : col \in cols}])

\* ALTER TABLE ... ADD COLUMN IF NOT EXISTS: rejected when there is no such
\* table
ExecAddColumn(c, db, name, col) ==
    IF <<db, name>> \notin c.tables THEN Rejected(c)
    ELSE Accepted([c EXCEPT !.columns = @ \cup {<<db, name, col>>}])

\* DROP TABLE IF EXISTS: whatever bears the name goes
ExecDropTable(c, db, name) ==
    Accepted([c EXCEPT
                !.tables = @ \ {<<db, name>>},
                !.views = @ \ {<<db, name>>},
                !.columns = {x \in @ : <<x[1], x[2]>> # <<db, name>>},
                !.rows = {x \in @ : <<x[1], x[2]>> # <<db, name>>}])

\* CREATE MATERIALIZED VIEW (no IF NOT EXISTS): rejected when the name is
\* taken
ExecCreateView(c, db, name) ==
    IF db \notin c.databases \/ Exists(c, db, name) THEN Rejected(c)
    ELSE Accepted([c EXCEPT !.views = @ \cup {<<db, name>>}])

Exec(c, op) ==
    CASE op.kind = "default_columns" -> ExecDefaultColumns(c)
      [] op.kind = "create_database" -> ExecCreateDatabase(c, op.db)
      [] op.kind = "create_table" -> ExecCreateTable(c, op.db, op.name, op.arg)
      [] op.kind = "add_column" -> ExecAddColumn(c, op.db, op.name, op.arg)
      [] op.kind = "drop_table" -> ExecDropTable(c, op.db, op.name)
      [] op.kind = "create_view" -> ExecCreateView(c, op.db, op.name)

----------------------------------------------------------------------------
(* The schema migrator: runs *)

IdleRun == [status |-> "idle"]

\* apply_schema is entered: `units` is what the metadata it fetches makes it
\* do, `before` the catalog it finds, `sequel` that the other call had
\* returned by then
StartedRun(collect_results, units, c, sequel) ==
    [status |-> "running", collect_results |-> collect_results,
     units |-> units,
     ui |-> 1, oi |-> 1,       \* the unit and the step of it that is next
     results |-> <<>>,         \* bronze_results + field_results
     exc |-> "",               \* what apply_schema raised
     sent |-> <<>>,            \* the unit of every statement sent
     dropped |-> {},           \* what the run's DROPs removed
     before |-> c, sequel |-> sequel]

Finished(run) == run.status \in {"done", "raised"}

CurrentUnit(run) == run.units[run.ui]

CurrentOp(run) == CurrentUnit(run).ops[run.oi]

\* One step of a run against the catalog c: the run and the catalog after it
StepRun(run, c) ==
    LET u == CurrentUnit(run)
        op == CurrentOp(run)
        Entry(status) == [kind |-> u.kind, id |-> u.id, status |-> status]
        With(rn, status) ==
            IF rn.collect_results
            THEN [rn EXCEPT !.results = Append(@, Entry(status))] ELSE rn
        NextUnit(rn) ==
            IF rn.ui < Len(rn.units) THEN [rn EXCEPT !.ui = @ + 1, !.oi = 1]
            ELSE [rn EXCEPT !.status = "done"]
        Advance(rn) ==
            IF rn.oi < Len(u.ops) THEN [rn EXCEPT !.oi = @ + 1] ELSE NextUnit(rn)
        Abort(rn, exc) == [rn EXCEPT !.status = "raised", !.exc = exc]
        Fail(rn, exc) ==
            CASE op.handler = "propagate" -> Abort(rn, exc)
              [] op.handler = "skip" -> NextUnit(With(rn, "skipped"))
              [] op.handler = "collect" ->
                   IF rn.collect_results THEN NextUnit(With(rn, "error"))
                   ELSE Abort(rn, exc)
    IN CASE op.kind = "raise" -> [run |-> Fail(run, op.exc), ch |-> c]
         [] op.kind = "result" -> [run |-> NextUnit(With(run, op.status)), ch |-> c]
         [] OTHER ->
              LET out == Exec(c, op)
                  gone == IF op.kind # "drop_table" THEN {}
                          ELSE {<<"table", op.db, op.name>> :
                                   x \in {<<op.db, op.name>>} \cap c.tables}
                               \cup {<<"view", op.db, op.name>> :
                                   x \in {<<op.db, op.name>>} \cap c.views}
                  rn == [run EXCEPT !.sent = Append(@, run.ui),
                                    !.dropped = @ \cup gone]
              IN [run |-> IF out.ok THEN Advance(rn) ELSE Fail(rn, "HTTPError"),
                  ch |-> out.ch]

\* apply_schema run alone against an empty warehouse
RECURSIVE RunFrom(_, _)
RunFrom(run, c) ==
    IF Finished(run) THEN [run |-> run, ch |-> c]
    ELSE LET s == StepRun(run, c) IN RunFrom(s.run, s.ch)

RunAlone(collect_results) ==
    RunFrom(StartedRun(collect_results, Units(meta), EmptyCatalog, FALSE),
            EmptyCatalog)

\* apply_schema is called, with or without result collection; the metadata
\* it fetches (lines 503-513) is `meta`
StartRun(r) ==
    /\ runs[r].status = "idle"
    /\ \E collect_results \in BOOLEAN :
         runs' = [runs EXCEPT ![r] =
                    StartedRun(collect_results, Units(meta), ch,
                               \E q \in RunIds \ {r} : Finished(runs[q]))]
    /\ UNCHANGED <<meta, ch, call>>
    /\ UNCHANGED pullerVars

\* The next step of run r is of the given kind
Ready(r, kind) ==
    /\ runs[r].status = "running"
    /\ CurrentOp(runs[r]).kind = kind

\* Run r takes its next step
TakeStep(r) ==
    /\ runs' = [runs EXCEPT ![r] = StepRun(runs[r], ch).run]
    /\ ch' = StepRun(runs[r], ch).ch
    /\ UNCHANGED <<meta, call>>
    /\ UNCHANGED pullerVars

\* A guard of the unit raises (require_identifier, quote_identifier, the
\* event_ts check, _resolve_target_projects)
GuardRaises(r) ==
    /\ Ready(r, "raise")
    /\ TakeStep(r)

\* results.append of a unit that ran to its end or was skipped
RecordResult(r) ==
    /\ Ready(r, "result")
    /\ TakeStep(r)

\* _ensure_default_bronze_columns
EnsureDefaultBronzeColumns(r) ==
    /\ Ready(r, "default_columns")
    /\ TakeStep(r)

\* ch.execute of CREATE DATABASE IF NOT EXISTS
CreateDatabase(r) ==
    /\ Ready(r, "create_database")
    /\ TakeStep(r)

\* ch.execute of CREATE TABLE IF NOT EXISTS
CreateTable(r) ==
    /\ Ready(r, "create_table")
    /\ TakeStep(r)

\* ch.execute of ALTER TABLE ... ADD COLUMN IF NOT EXISTS
AddColumn(r) ==
    /\ Ready(r, "add_column")
    /\ TakeStep(r)

\* ch.execute of DROP TABLE IF EXISTS of a view
DropTable(r) ==
    /\ Ready(r, "drop_table")
    /\ TakeStep(r)

\* ch.execute of CREATE MATERIALIZED VIEW
CreateView(r) ==
    /\ Ready(r, "create_view")
    /\ TakeStep(r)

\* An empty warehouse, one of the metadata contents, no call made yet; the
\* puller does not run
InitMigrator ==
    /\ InitPuller({}, [cycles |-> 0, faults |-> 0, crashes |-> 0, jobs |-> 0], {})
    /\ call = NoCall
    /\ meta \in MetaChoices
    /\ runs = [r \in RunIds |-> IdleRun]
    /\ ch = EmptyCatalog

NextMigrator ==
    \E r \in RunIds :
        \/ StartRun(r)
        \/ GuardRaises(r)
        \/ RecordResult(r)
        \/ EnsureDefaultBronzeColumns(r)
        \/ CreateDatabase(r)
        \/ CreateTable(r)
        \/ AddColumn(r)
        \/ DropTable(r)
        \/ CreateView(r)

\* Two calls of apply_schema, their statements interleaved in every way; one
\* after the other is one of the ways
SpecMigrator == InitMigrator /\ [][NextMigrator]_vars

\* ClickHouseWriter.insert_rows of the puller, puller.py 342-353, on
\* <project>_bronze.os_events_raw while the migrator runs: one row more in
\* the table, and in the target table of every materialized view that exists
\* in the database at that moment (CREATE MATERIALIZED VIEW ... TO <table> AS
\* SELECT ... FROM os_events_raw, migrator.py 303-313: a view passes on the
\* rows inserted while it exists, and nothing of what the table held before).
\* The row is one that the view's WHERE clause selects
InsertRows ==
    \E db \in ch.databases :
        LET row == Cardinality({x \in ch.rows : x[2] = OsEventsRaw}) + 1
            targets == {SubSeq(v[2], 1, Len(v[2]) - 3) :
                           v \in {x \in ch.views : x[1] = db}}
        IN /\ row <= MaxRows
           /\ <<db, OsEventsRaw>> \in ch.tables
           /\ ch' = [ch EXCEPT !.rows = @ \cup {<<db, OsEventsRaw, row>>}
                                   \cup {<<db, t, row>> : t \in targets}]
           /\ UNCHANGED <<meta, runs, call>>
           /\ UNCHANGED pullerVars

\* The migrator called (twice) while the puller inserts
SpecInsert == InitMigrator /\ [][NextMigrator \/ InsertRows]_vars

----------------------------------------------------------------------------
(* Properties *)

\* C1: once a backfill job's status is 'cancelled', no step of the worker
\* changes that job's row (status, last_error, resume pointer), whatever the
\* interleaving of the operator's cancel with the worker's steps.
C1_NoWriteAfterCancel ==
    [][\A j \in JobIds :
          jobs[j].status = "cancelled" => jobs'[j] = jobs[j]]_vars

\* C2: in the paged loop the checkpoint of a batch is persisted only after
\* the warehouse accepted every row built from the batch, and the next search
\* is issued only after that checkpoint step, for every MAX_RETRIES >= 0.
C2_CheckpointAfterInsert ==
    /\ pc = "ckpt" => BuildRows(pl.hits) \subseteq gh.accepted
    /\ (pc \in {"throttle", "loop_top", "search"} /\ pl.hits # <<>>)
         => (BuildRows(pl.hits) \subseteq gh.accepted /\ gh.ckptDone)

\* C2 witness: a second search is about to be issued after a batch that was
\* inserted and checkpointed.
C2_Witness ==
    /\ pc = "search" /\ pl.hits # <<>>
    /\ gh.accepted = BuildRows(pl.hits) /\ gh.ckptDone

\* C3: in one run of a backfill job every index processed after the first
\* processed one, and every index other than the job's stored resume index,
\* is searched from job.start_ts with no search_after.
C3_LaterIndicesFromStart ==
    (pc = "pit_open" /\ pl.is_backfill
        /\ (gh.nproc >= 1 \/ pl.index_name # pl.job.last_index_name))
      => (pl.start_ts = pl.job.start_ts /\ pl.search_after = NoSort)

\* C4: the last_sort_json stored in ingestion_state for a (source, index)
\* never decreases in (time_field, _id) order, over any cycles.
C4_CheckpointMonotonic ==
    [][\A s \in Sources, i \in IndexNames :
          ing[s][i].exists
            => SortLE(ing[s][i].last_sort_json, ing'[s][i].last_sort_json)]_vars

\* C5: within one execution of the paged loop the persisted checkpoints are
\* non-decreasing in sort order, and each request after the first carries as
\* search_after the sort of the last hit of the previous non-empty page.
C5_LoopMonotonic ==
    /\ \A k \in 1..(Len(gh.ckptLog) - 1) : SortLE(gh.ckptLog[k], gh.ckptLog[k + 1])
    /\ \A k \in 2..Len(gh.reqLog) :
         k - 1 <= Len(gh.pageLog) /\ gh.reqLog[k] = gh.pageLog[k - 1]

\* C5 witness: a loop that persisted two checkpoints and sent three requests.
C5_Witness == Len(gh.ckptLog) >= 2 /\ Len(gh.reqLog) >= 3

\* C6: when a cycle reaches its inter-cycle sleep, every enabled source has
\* been handled in it, whatever failed while handling an earlier source.
C6_LaterSourcesRun == pc = "sleep" => gh.visited = env.enabled

\* C7: a running job cancelled after a batch's checkpoint and before the next
\* status check gets no further search, insert or write, and the worker only
\* moves towards leaving the job's backfill.
C7_CancelStops ==
    [][gh.boundaryCancel =>
          /\ jobs'[pl.job_id] = jobs[pl.job_id]
          /\ wh' = wh
          /\ Len(gh'.reqLog) <= Len(gh.reqLog)
          /\ Len(gh'.ckptLog) <= Len(gh.ckptLog)
          /\ pc' \in {"throttle", "loop_top", "pit_close", "bf_after_check",
                      "src_next"}]_vars

\* C7 witness: after such a cancel the worker has left the paged loop.
C7_Witness == gh.boundaryCancel /\ pc = "bf_after_check"

\* C8: after the handler of a failed incremental index has run, the
\* ingestion_state row of that (source, index) exists with status 'error' and
\* the exception text.
C8_ErrorRecorded ==
    (pc = "inc_next" /\ pl.exc # "")
      => LET r == ing[Src][pl.index_name]
         IN r.exists /\ r.status = "error" /\ r.last_error = pl.exc

\* C9: the handler of a failed backfill leaves the job 'failed' with the
\* exception text and with the resume pointer the last checkpoint write left.
C9_FailKeepsPointer ==
    [][(pc = "bf_fail" /\ pc' = "src_next") =>
          /\ jobs'[pl.job_id].status = "failed"
          /\ jobs'[pl.job_id].last_error = pl.exc
          /\ Pointer(jobs'[pl.job_id]) = gh.lastCkpt[pl.job_id]]_vars

\* C9 witness: a job failed by an upstream or warehouse exception keeps a
\* resume pointer inside an index.
C9_Witness ==
    \E j \in JobIds :
        /\ jobs[j].status = "failed"
        /\ jobs[j].last_error = "RequestException"
        /\ jobs[j].last_sort_json # NoSort
        /\ Pointer(jobs[j]) = gh.lastCkpt[j]

\* C10: a run that resumes a job the worker was stopped on (the same indices
\* being discovered) searches no index the job had been advanced past, and
\* re-inserts only documents of the index that was in progress that follow
\* the checkpoint persisted for it.
C10_ResumeNoReread ==
    (pl.is_backfill /\ gh.stop.job # 0 /\ gh.stop.job = pl.job_id
        /\ pl.indices = gh.stop.indices)
      => /\ pc = "search" => pl.index_name \notin gh.stop.finished
         /\ pc = "ckpt" =>
              \A d \in gh.accepted :
                 <<pl.index_name, d>> \in gh.stop.rows
                   => (pl.index_name = gh.stop.index /\ SortLT(gh.stop.sort, d))

\* C11: an upstream search answered with a 4xx status is attempted exactly
\* once: no retry, no backoff sleep, and the failure reaches the caller.
C11_No4xxRetry ==
    (call.fn = "search" /\ call.out.attempts >= 1 /\ call.answers[1] = "4xx")
      => /\ call.out.attempts = 1
         /\ call.out.sleeps = <<>>
         /\ call.out.result = "HTTPError"

\* C12: a request or warehouse insert whose first attempts fail transiently
\* makes at most max_retries attempts, sleeps backoff_base * 2^k after the
\* k-th failed attempt (k from 0) unless it was the final one, and ends with
\* the result of the first attempt that succeeds.
C12_RetryBackoff ==
    call.fn \in {"_request", "_retry_clickhouse"}
      => LET o == call.out
             m == call.max_retries
             f == call.fails
         IN /\ o.attempts <= m
            /\ \A k \in 1..Len(o.sleeps) : o.sleeps[k] = 2 ^ (k - 1)
            /\ Len(o.sleeps) = IF o.attempts = 0 THEN 0 ELSE o.attempts - 1
            /\ f < m => (o.result = "ok" /\ o.attempts = f + 1)
            /\ (f >= m /\ m >= 1)
                 => (o.result = "RequestException" /\ o.attempts = m)

\* C12 witness: an insert that failed twice and succeeded on the third and
\* last attempt allowed, after sleeps of 1 and 2 backoff bases.
C12_Witness ==
    /\ call.fn = "_retry_clickhouse"
    /\ call.max_retries = 3 /\ call.fails = 2
    /\ call.out.result = "ok" /\ call.out.sleeps = <<1, 2>>

\* C14: require_identifier accepts a value exactly when it is non-empty and
\* every one of its characters is in [A-Za-z0-9_].
C14_IdentifierGuard ==
    call.fn = "require_identifier"
      => (call.out = "ok"
            <=> (call.value # <<>>
                 /\ \A i \in 1..Len(call.value) :
                       call.value[i] \in IdentifierChars))

\* C19: after a puller_config row is applied each setting equals the row's
\* value when that value is present, castable and at least the setting's
\* minimum, and keeps its previous value otherwise; so a setting at or above
\* its minimum before is at or above it after.
C19_ConfigMinima ==
    call.fn = "_apply_puller_config"
      => \A f \in DOMAIN call.current :
            LET v == call.row[f]
                m == ConfigFields[f].minimum
                castable == v[1] # Uncastable
                              /\ (ConfigFields[f].cast = "int" => v[1] # NaN)
                taken == v # <<>> /\ castable /\ v[1] # NaN /\ v[1] >= m
            IN /\ call.out[f] = IF taken THEN v[1] ELSE call.current[f]
               /\ call.out[f] # NaN /\ call.out[f] >= m

\* C18: whatever happened in a cycle (no enabled source, no index, a failed
\* source), the heartbeat row says 'idle' when the worker reaches the
\* inter-cycle sleep, and 'running' once the cycle has fetched its sources.
C18_IdleBeforeSleep ==
    /\ pc = "sleep" => hb = "idle"
    /\ pc \in {"ensure_storage", "fetch_job", "src_next"} => hb = "running"

\* C20: against a quiescent upstream, one execution of the paged search loop
\* of one index ends having inserted every document that matches the window
\* and lies after the starting cursor and has a parseable timestamp, each
\* exactly once, in ascending (time_field, _id) order.  Stated where the loop
\* has ended (the finally clause is reached) without a failed HTTP call and
\* without a cancellation; that the loop ends is the decrease of the
\* documents after the cursor (C5).
C20_LoopInsertsAll ==
    (/\ pc = "pit_close"
     /\ pl.exc \notin {"RequestException", "RuntimeError"}
     /\ Len(gh.reqLog) >= 1
     /\ pl.is_backfill => IsActive(jobs[pl.job_id].status))
    => gh.loopRows =
         SortDocs({d \in DocsOf(pl.index_name) :
                     /\ (pl.start_ts = NoTs \/ d[1] >= pl.start_ts)
                     /\ (pl.end_ts = NoTs \/ d[1] <= pl.end_ts)
                     /\ (gh.reqLog[1] = NoSort \/ SortLT(gh.reqLog[1], d))
                     /\ ExtractEventTs(env.text, pl.index_name, d) # ParseError})

\* C13: a unit whose project id, table name, column name or `__` source
\* column fails the identifier guard sends no SQL statement to the warehouse:
\* every statement a run has sent belongs to a unit all of whose identifiers
\* pass require_identifier.
C13_GuardBeforeSql ==
    \A r \in RunIds :
        runs[r].status # "idle" =>
            \A k \in 1..Len(runs[r].sent) :
                \A n \in runs[r].units[runs[r].sent[k]].identifiers :
                    RequireIdentifier(n) = "ok"

\* C15: whatever the interleaving of the statements of two runs over the same
\* metadata, when both have ended each has ended as a run alone ends (the
\* same return or exception, the same entries), and the catalog is the one a
\* single run leaves.
C15_ConcurrentRunsSafe ==
    (\A r \in RunIds : Finished(runs[r])) =>
        /\ \A r \in RunIds :
              /\ runs[r].status = RunAlone(runs[r].collect_results).run.status
              /\ runs[r].results = RunAlone(runs[r].collect_results).run.results
        /\ ch \in {RunAlone(runs[r].collect_results).ch : r \in RunIds}

\* What a second call in sequence keeps: databases, tables and columns as it
\* found them, nothing but views dropped
KeepsTables(r) ==
    /\ ch.databases = runs[r].before.databases
    /\ ch.tables = runs[r].before.tables
    /\ ch.columns = runs[r].before.columns
    /\ \A d \in runs[r].dropped : d[1] = "view"

CleanRun(run) ==
    /\ run.status = "done"
    /\ \A k \in 1..Len(run.results) : run.results[k].status # "error"

C17_FailuresCollected ==
    \A r \in RunIds :
        (runs[r].status # "idle" /\ runs[r].collect_results) =>
            /\ runs[r].status = "raised" =>
                 CurrentUnit(runs[r]).kind \notin {"table", "field"}
            /\ runs[r].status = "done" =>
                 /\ \A k \in 1..Len(meta.bronze_tables) :
                       \E e \in Range(runs[r].results) :
                           e.kind = "table" /\ e.id = meta.bronze_tables[k].table_id
                 /\ \A k \in 1..Len(meta.field_rows) :
                       \E e \in Range(runs[r].results) :
                           e.kind = "field" /\ e.id = meta.field_rows[k].field_id

\* C21: every search request carries either a pit in its body or the index
\* in its path, never both and never neither; and a loop that ran to its
\* empty page sent the requests, got the pages and inserted the rows that
\* the loop in the other mode (with a PIT when it ran without, without when
\* it ran with one) sends, gets and inserts against the same upstream.
C21_PitFallbackSame ==
    /\ \A k \in 1..Len(gh.requests) :
          (gh.requests[k].pit # 0) # (gh.requests[k].index # NoIndex)
    /\ (pc = "pit_close" /\ gh.loopEnd = "empty") =>
          LET other == PagedLoop(SearchRequest(~pl.use_pit, pl.index_name,
                                               pl.index_name),
                                 pl.start_ts, pl.end_ts, gh.reqLog[1],
                                 cfg.batch_size,
                                 [reqLog |-> <<>>, pageLog |-> <<>>,
                                  loopRows |-> <<>>])
          IN /\ gh.reqLog = other.reqLog
             /\ gh.pageLog = other.pageLog
             /\ gh.loopRows = other.loopRows

\* A loop run after a failed open_pit has ended by an empty page after two
\* pages of hits
C21_Witness ==
    /\ pc = "pit_close"
    /\ gh.loopEnd = "empty"
    /\ ~pl.use_pit
    /\ Len(gh.pageLog) >= 2
    /\ \A k \in 1..Len(gh.requests) : gh.requests[k].index = pl.index_name

\* C22: when the cycle reaches a source, backfill processing is entered if
\* and only if the source has a pending or running job, for the job created
\* first among them, and incremental tailing is entered otherwise; backfill
\* processing, failed or not, is left for the next source only, never for
\* incremental tailing, and incremental tailing never for backfill.
C22_BackfillOrIncremental ==
    [][LET LoopPcs == {"pit_open", "loop_top", "search", "insert", "ckpt",
                       "throttle", "pit_close"}
           Backfill(at, p) ==
               \/ at \in {"bf_start", "bf_list", "bf_empty_complete",
                           "bf_empty_clear", "bf_loop_check", "bf_after_check",
                           "bf_advance", "bf_final_check", "bf_complete",
                           "bf_fail"}
               \/ at \in LoopPcs /\ p.is_backfill
           Incremental(at, p) ==
               \/ at \in {"inc_list", "inc_state", "inc_idle", "inc_error",
                           "inc_next"}
               \/ at \in LoopPcs /\ ~p.is_backfill
           open == {j \in JobIds : /\ jobs[j].source_id = Src
                                    /\ jobs[j].status \in {"pending", "running"}}
       IN /\ (pc = "fetch_job" /\ pc' # pc) =>
                IF open = {}
                THEN pc' = "inc_list"
                ELSE /\ pc' = "bf_start"
                     /\ pl'.job_id \in open
                     /\ \A k \in open : pl'.job_id <= k
          /\ (pc # "fetch_job" /\ pc' # pc) =>
                /\ Backfill(pc', pl') => Backfill(pc, pl)
                /\ Incremental(pc', pl') => Incremental(pc, pl)
    ]_vars

\* Backfill processing has been entered for the older of two open jobs of
\* the source
C22_Witness ==
    /\ pc = "bf_start"
    /\ pl.job_id = 1
    /\ \A j \in {1, 2} : /\ jobs[j].source_id = Src
                          /\ jobs[j].status \in {"pending", "running"}

\* C23: each source has at most one backfill job whose status is pending or
\* running.
C23_OneOpenJobPerSource ==
    \A s \in Sources :
        Cardinality({j \in JobIds : /\ jobs[j].source_id = s
                                    /\ jobs[j].status \in {"pending", "running"}})
            <= 1

\* C24: converting a batch raises nothing over a hit whose timestamp cannot
\* be parsed, and the rows inserted for the batch are those of its hits
\* whose timestamp can be parsed.
C24_UnparseableSkipped ==
    /\ pl.exc # "ValueError"
    /\ pc = "ckpt" =>
          gh.accepted = {d \in Range(pl.hits) :
                           ExtractEventTs(env.text, pl.index_name, d) # ParseError}

\* C25: when secret_ref is set, the credential is the referenced file's
\* content without its surrounding whitespace, or none when the file cannot
\* be read, whatever secret_enc is.
C25_SecretRefOnly ==
    (call.fn = "_load_secret" /\ call.secret_ref # <<>>) =>
        IF call.file.readable
        THEN /\ ~call.out.none
             /\ \E i \in 0..Len(call.file.content) :
                  \E j \in i..Len(call.file.content) :
                      /\ call.out.text = SubSeq(call.file.content, i + 1, j)
                      /\ \A k \in (1..i) \cup ((j + 1)..Len(call.file.content)) :
                            call.file.content[k] = "\n"
                      /\ call.out.text # <<>> =>
                            call.out.text[1] # "\n"
                            /\ call.out.text[Len(call.out.text)] # "\n"
        ELSE call.out.none

C27_BackfillWindow ==
    (pc = "search" /\ pl.is_backfill) =>
        /\ pl.start_ts # NoTs
        /\ pl.start_ts >= jobs[pl.job_id].start_ts
        /\ pl.end_ts = jobs[pl.job_id].end_ts

\* C28: while a job claimed with a non-empty last_index_name is processed,
\* the discovered indices are in ascending order and no index below
\* last_index_name is searched, be last_index_name among them or not.
C28_SkipBelowResume ==
    (pl.is_backfill /\ pl.job.last_index_name # NoIndex) =>
        /\ \A k \in 1..(Len(pl.indices) - 1) : pl.indices[k] < pl.indices[k + 1]
        /\ pc \in {"pit_open", "loop_top", "search", "insert", "ckpt",
                    "throttle", "pit_close"}
              => pl.index_name >= pl.job.last_index_name

\* C29: the first request of an incremental loop has end = now, start =
\* last_ts - overlap when the index has a stored last_ts and now - overlap
\* when it has none, and carries the stored last_sort_json as search_after
\* exactly when a last_ts is stored and the overlap is zero.
C29_IncrementalWindow ==
    (/\ ~pl.is_backfill
     /\ pc \in {"pit_open", "loop_top", "search"}
     /\ gh.reqLog = <<>>) =>
        LET state == ing[Src][pl.index_name]
        IN /\ pl.end_ts = Now
           /\ pl.start_ts = IF state.last_ts # NoTs
                             THEN state.last_ts - cfg.overlap_minutes
                             ELSE Now - cfg.overlap_minutes
           /\ pl.search_after = IF state.last_ts # NoTs /\ cfg.overlap_minutes = 0
                                 THEN state.last_sort_json
                                 ELSE NoSort

\* The first request of an incremental loop is about to be sent with the
\* stored cursor: a last_ts is stored and the overlap is zero
C29_Witness ==
    /\ ~pl.is_backfill
    /\ pc = "search"
    /\ gh.reqLog = <<>>
    /\ ing[Src][pl.index_name].last_ts # NoTs
    /\ cfg.overlap_minutes = 0
    /\ pl.search_after = ing[Src][pl.index_name].last_sort_json
    /\ pl.search_after # NoSort

\* C30: the puller sets a job to 'completed' only when no index was
\* discovered or when the loop of every discovered index that was not
\* skipped ended by an empty page, and it marks an index finished only when
\* the index's loop ended by an empty page, never when the status check
\* ended it.
C30_CompletedAfterEmptyPages ==
    [][\A j \in JobIds :
          /\ (jobs'[j].status = "completed" /\ jobs[j].status # "completed") =>
                \/ pc = "bf_empty_complete" /\ pl.indices = <<>>
                \/ /\ pc = "bf_complete"
                   /\ pl.job_id = j
                   /\ \A i \in Range(pl.indices) :
                         \/ /\ pl.job.last_index_name \in Range(pl.indices)
                            /\ i < pl.job.last_index_name
                         \/ i \in gh.emptied
          /\ (gh'.finished[j] # gh.finished[j] /\ gh'.finished[j] # {}) =>
                gh.loopEnd = "empty"
    ]_vars

\* A job is about to be set to 'completed' after the loops of two indices
\* ended by an empty page
C30_Witness ==
    /\ pc = "bf_complete"
    /\ Len(pl.indices) = 2
    /\ gh.emptied = Range(pl.indices)


\* C34: in every run of apply_schema, both CREATE DATABASE statements of a
\* project and the CREATE TABLE of its os_events_raw are sent before any
\* statement on that project's parsing tables or field-registry columns; the
\* statements of one parsing table are sent in the order CREATE TABLE IF NOT
\* EXISTS, one ADD COLUMN IF NOT EXISTS per column, DROP of the view, CREATE
\* of the view; and every view in the catalog has its source table
\* os_events_raw and its target table in the catalog.
C34_StatementOrder ==
    LET Ord(run, j) == Cardinality({i \in 1..j : run.sent[i] = run.sent[j]})
        OpAt(run, j) == run.units[run.sent[j]].ops[Ord(run, j)]
        KindAt(run, j) == run.units[run.sent[j]].kind
        Rank(kind) ==
            CASE kind = "create_table" -> 1
              [] kind = "add_column" -> 2
              [] kind = "drop_table" -> 3
              [] kind = "create_view" -> 4
        Before(run, j, kind, db, name) ==
            \E i \in 1..(j - 1) :
                /\ OpAt(run, i).kind = kind
                /\ OpAt(run, i).db = db
                /\ OpAt(run, i).name = name
        StorageFirst(run, j) ==
            \A k \in 1..Len(meta.projects) :
                LET bronze_db == meta.projects[k] \o BronzeSuffix
                    gold_db == meta.projects[k] \o GoldSuffix
                IN OpAt(run, j).db \in {bronze_db, gold_db} =>
                       /\ Before(run, j, "create_database", bronze_db, <<>>)
                       /\ Before(run, j, "create_database", gold_db, <<>>)
                       /\ Before(run, j, "create_table", bronze_db, OsEventsRaw)
        TableOrder(run, j) ==
            /\ \A i \in 1..(j - 1) :
                  run.sent[i] = run.sent[j] =>
                      Rank(OpAt(run, i).kind) <= Rank(OpAt(run, j).kind)
            /\ OpAt(run, j).kind = "create_view" =>
                  LET op == OpAt(run, j)
                      table == op.arg
                      cols == {OpAt(run, i).arg :
                                  i \in {x \in 1..(j - 1) :
                                            /\ run.sent[x] = run.sent[j]
                                            /\ OpAt(run, x).kind = "add_column"}}
                  IN /\ run.sent[j - 1] = run.sent[j]
                     /\ OpAt(run, j - 1).kind = "drop_table"
                     /\ OpAt(run, j - 1).name = op.name
                     /\ \E i \in 1..(j - 1) :
                           /\ run.sent[i] = run.sent[j]
                           /\ OpAt(run, i).kind = "create_table"
                           /\ OpAt(run, i).name = table
                           /\ cols = OpAt(run, i).arg
    IN /\ \A r \in RunIds :
              runs[r].status # "idle" =>
                  \A j \in 1..Len(runs[r].sent) :
                      /\ KindAt(runs[r], j) \in {"table", "field"}
                            => StorageFirst(runs[r], j)
                      /\ KindAt(runs[r], j) = "table" => TableOrder(runs[r], j)
       /\ \A v \in ch.views :
              /\ <<v[1], OsEventsRaw>> \in ch.tables
              /\ <<v[1], SubSeq(v[2], 1, Len(v[2]) - 3)>> \in ch.tables

\* A run has returned having sent the four kinds of statement of a parsing
\* table, the last of them CREATE of the view, and then the ALTER of a
\* field-registry row.
C34_Witness ==
    \E r \in RunIds :
        /\ runs[r].status = "done"
        /\ \E j \in 1..Len(runs[r].sent) :
              /\ runs[r].units[runs[r].sent[j]].kind = "table"
              /\ runs[r].units[runs[r].sent[j]].ops[
                     Cardinality({i \in 1..j : runs[r].sent[i] = runs[r].sent[j]})
                 ].kind = "create_view"
              /\ Len(runs[r].units[runs[r].sent[j]].ops) = 6
              /\ \E i \in (j + 1)..Len(runs[r].sent) :
                    runs[r].units[runs[r].sent[i]].kind = "field"

FieldStatements(r, row) ==
    {j \in 1..Len(runs[r].sent) :
        /\ runs[r].units[runs[r].sent[j]].kind = "field"
        /\ runs[r].units[runs[r].sent[j]].id = row.field_id}

\* The statement of a field-registry row sent at position j
FieldStatement(r, j) == runs[r].units[runs[r].sent[j]].ops[1]

\* The target projects the claim names for a row
FieldTargets(row) ==
    IF row.project_id = Null THEN Range(meta.projects)
    ELSE {row.project_id} \cap Range(meta.projects)

\* The statement is an ADD COLUMN of the row's column that carries ALIAS or
\* MATERIALIZED and the expression when the row has one and nothing otherwise
FieldClause(op, row) ==
    /\ op.kind = "add_column"
    /\ op.arg = row.column_name
    /\ IF row.expression_sql = Null THEN op.clause = <<>>
       ELSE /\ Len(op.clause) = 2
            /\ op.clause[1] \in {Alias, Materialized}
            /\ op.clause[2] = row.expression_sql

CoercedExtraction(type, target) ==
    LET e == <<"JSON_VALUE(raw, '">> \o target \o <<"')">>
    IN CASE type.class = "DateTime" ->
                <<"parseDateTime64BestEffortOrNull(">> \o e \o <<")">>
         [] type.class = "IPv6" -> <<"toIPv6OrNull(">> \o e \o <<")">>
         [] type.class = "UInt" ->
                <<"toUInt">> \o type.bits \o <<"OrNull(">> \o e \o <<")">>
         [] type.class = "Int" ->
                <<"toInt">> \o type.bits \o <<"OrNull(">> \o e \o <<")">>
         [] type.class = "Float" -> <<"toFloat64OrNull(">> \o e \o <<")">>
         [] OTHER -> <<"nullIf(">> \o e \o <<", '')">>

\* One expression alone, or coalesce over several in their order
Coalesced(exprs) ==
    LET joined[k \in 1..Len(exprs)] ==
            IF k = 1 THEN exprs[1] ELSE joined[k - 1] \o <<", ">> \o exprs[k]
    IN IF Len(exprs) = 1 THEN exprs[1]
       ELSE <<"coalesce(">> \o joined[Len(exprs)] \o <<")">>

\* C38 as stated: for a scalar column type, _build_column_expr gives CAST(NULL
\* AS <type>) for an empty path list, and otherwise the coerced extraction of
\* every listed path (by the type unwrapped from Nullable: DateTime, IPv6,
\* UInt/Int with the width, Float, else empty-string-to-null), alone for one
\* path and inside coalesce, in the listed order, for several.
C38_PathCompiler ==
    (call.fn = "_build_column_expr" /\ call.type.class # "Array") =>
        /\ call.out.exc = ""
        /\ call.out.expr =
             IF call.paths = <<>>
             THEN <<"CAST(NULL AS ">> \o call.type.text \o <<")">>
             ELSE Coalesced([k \in 1..Len(call.paths) |->
                               CoercedExtraction(call.type, call.paths[k].target)])

\* C38, amended: as stated, except that a path that starts with `__` yields
\* the source column it names, uncoerced, and ValueError when that name fails
\* the identifier guard, and a path that starts with `epoch_ms:` yields
\* fromUnixTimestamp64Milli(toInt64OrNull(<extraction>)) whatever the type.
C38_PathCompilerJsonPaths ==
    (call.fn = "_build_column_expr" /\ call.type.class # "Array") =>
        IF \E k \in 1..Len(call.paths) :
               /\ call.paths[k].kind = "source"
               /\ RequireIdentifier(call.paths[k].target) = "ValueError"
        THEN call.out.exc = "ValueError"
        ELSE /\ call.out.exc = ""
             /\ call.out.expr =
                  IF call.paths = <<>>
                  THEN <<"CAST(NULL AS ">> \o call.type.text \o <<")">>
                  ELSE Coalesced(
                         [k \in 1..Len(call.paths) |->
                            CASE call.paths[k].kind = "source" -> call.paths[k].target
                              [] call.paths[k].kind = "epoch" ->
                                   <<"fromUnixTimestamp64Milli(toInt64OrNull(",
                                     "JSON_VALUE(raw, '">>
                                   \o call.paths[k].target \o <<"')", "))">>
                              [] OTHER ->
                                   CoercedExtraction(call.type,
                                                     call.paths[k].target)])

\* The paths `a` and `__raw`, listed with blanks, commas and a newline between
\* and after them, of a Nullable(Int8) column compile to
\* coalesce(toInt8OrNull(JSON_VALUE(raw, '$.a')), raw).
C38_Witness ==
    /\ call.fn = "_build_column_expr"
    /\ call.type.class = "Int" /\ call.type.bits = <<"8">>
    /\ Len(call.paths) = 2
    /\ call.paths[1].kind = "json" /\ call.paths[2].kind = "source"
    /\ Len(call.json_path) = 13
    /\ call.out.expr =
         <<"coalesce(", "toInt", "8", "OrNull(", "JSON_VALUE(raw, '", "$", ".", "a",
           "')", ")", ", ", "r", "a", "w", ")">>

\* C31: a row inserted into <project>_bronze.os_events_raw while the migrator
\* runs is projected into the parsing table of every view of that database
\* that exists or has existed (a run has dropped it): no row is missed
\* between the migrator's DROP of a view and its CREATE.
C31_NoRowMissed ==
    [][\A x \in ch'.rows \ ch.rows :
          x[2] = OsEventsRaw =>
              \A v \in ch.views \cup
                       {<<d[2], d[3]>> :
                           d \in {e \in UNION {runs[r].dropped :
                                                  r \in {q \in RunIds :
                                                            runs[q].status # "idle"}} :
                                     e[1] = "view"}} :
                  v[1] = x[1] =>
                      <<x[1], SubSeq(v[2], 1, Len(v[2]) - 3), x[3]>> \in ch'.rows]_vars

\* C32: inside the paged search loop no close_pit has been called and the pit
\* id held is the one open_pit returned; the step by which the loop's
\* function returns or raises (after an empty page, the status check, or an
\* exception of a search or an insert) leaves close_pit called exactly once
\* for an opened PIT and never without one; and the function raises exactly
\* when the loop raised, with the loop's exception, whatever the close
\* request did.
C32_PitClosedOnce ==
    /\ [](pc \in {"loop_top", "search", "insert", "ckpt", "throttle", "pit_close"}
            => /\ gh.pitClosed = 0
               /\ gh.pitOpened = IF pl.pit_id # 0 THEN 1 ELSE 0)
    /\ [][(pc = "pit_close" /\ pc' # pc)
            => /\ gh'.pitClosed = gh.pitOpened
               /\ pl'.pit_id = 0
               /\ gh.loopEnd \in {"empty", "stopped", "raised"}
               /\ pl'.exc = pl.exc
               /\ (pl.exc # "") = (gh.loopEnd = "raised")
               /\ pc' = IF gh.loopEnd = "raised"
                        THEN (IF pl.is_backfill THEN "bf_fail" ELSE "inc_error")
                        ELSE (IF pl.is_backfill THEN "bf_after_check"
                              ELSE "inc_idle")]_vars

\* A loop that had opened a PIT raised out of a search or an insert, and its
\* one close_pit has been called.
C32_Witness ==
    /\ pc \in {"bf_fail", "inc_error"}
    /\ gh.loopEnd = "raised"
    /\ pl.index_name # NoIndex /\ pl.pit_id = 0
    /\ gh.pitOpened = 1 /\ gh.pitClosed = 1
    /\ Len(gh.requests) >= 2

\* C33: during and after the incremental tailing of a source, the
\* ingestion_state row of every index the run has handled, when there is one,
\* is 'idle' if the index's loop ended without exception and 'error' if it
\* raised, never 'running'; and when the tailing returns, the indices handled
\* are all the indices discovered, in their order, whichever of them raised.
C33_IdleOrErrorAfterTailing ==
    /\ [](\A k \in 1..Len(gh.tailed) :
             LET row == ing[Src][gh.tailed[k].index]
             IN row.exists =>
                    row.status = IF gh.tailed[k].end = "raised"
                                 THEN "error" ELSE "idle")
    /\ [][(pc = "inc_next" /\ pc' = "src_next")
            => /\ [k \in 1..Len(gh.tailed) |-> gh.tailed[k].index] = pl.indices
               /\ \A i \in Range(pl.indices) :
                     ing'[Src][i].exists => ing'[Src][i].status \in {"idle", "error"}]_vars

\* The tailing of two discovered indices is about to return: the loop of the
\* first raised after a checkpoint and its row says 'error', the second was
\* still handled, to its empty page, and its row says 'idle'.
C33_Witness ==
    /\ pc = "inc_next"
    /\ Len(pl.indices) = 2 /\ pl.idx = 2
    /\ Len(gh.tailed) = 2
    /\ gh.tailed[1].end = "raised"
    /\ ing[Src][pl.indices[1]].exists /\ ing[Src][pl.indices[1]].status = "error"
    /\ gh.tailed[2].end = "empty"
    /\ ing[Src][pl.indices[2]].exists /\ ing[Src][pl.indices[2]].status = "idle"

\* C37: with the worker always scheduled, a backfill job that is pending for
\* an enabled source eventually has one of the statuses completed, failed,
\* cancelled.
C37_PendingJobEnds ==
    \A j \in JobIds :
        (jobs[j].status = "pending" /\ jobs[j].source_id \in env.enabled)
            ~> (jobs[j].status \in {"completed", "failed", "cancelled"})

============================================================================
